---- MODULE Spec2Model ----
(***************************************************************************)
(* Model of the answer pipeline of epic-web-app: the circuit breaker and   *)
(* fallback wrapper around the model call, the response verifier, and the  *)
(* request pipeline around them.                                           *)
(*                                                                         *)
(* The Python parts are taken from docs/development/                        *)
(* ai-risks-and-mitigation.md; the line numbers in the comments refer to  *)
(* that file.                                                              *)
(***************************************************************************)
EXTENDS Integers, Sequences, FiniteSets

(***************************************************************************)
(* Bounds of the model                                                     *)
(***************************************************************************)
\* callers (threads) sharing the one CircuitBreaker instance
NumCallers == 2
\* the clock advances in steps of TickStep seconds, up to MaxTime
TickStep == 15
MaxTime == 60
\* the wrapped function stops failing once failure_count has reached this
MaxFailures == 4
\* an answer text is at most MaxPieces pieces of Pieces, one after the other
MaxPieces == 8
\* the number of source chunks an answer is verified against
MaxChunks == 1
\* the chunks a book has in the repository, numbered from 1
MaxRetrieved == 2
\* the length of a chunk's text
MaxChunkLen == 2
\* the keys a storage holds at most
MaxStored == 3

\* the books the API lists at most
MaxBooks == 2

\* the requests the API client sends at most
MaxRequests == 2

\* the characters typed into the verification code field at most
MaxCodeLen == 2

\* the prompt assembler's budget of characters
PromptBudget == 3
\* the claims the verifier finds in a generated answer
MaxClaims == 2
\* the length of the text typed into the question form
MaxQuestionLen == 2
\* submissions of a question in one run of the page
MaxSubmits == 2
\* the candidates handed to the hybrid ranker, one more than its K
MaxCandidates == 6
\* the words of a text given to the content filter
MaxWords == 3
\* applications of the content filter, each to the result of the one before
MaxApplies == 2

(***************************************************************************)
(* Program constants                                                       *)
(***************************************************************************)
\* part_001 line 32: the size limit of an upload, in bytes
MaxUploadBytes == 50 * 1024 * 1024

\* @CircuitBreaker(failure_threshold=3, recovery_timeout=30), line 272
failure_threshold == 3
recovery_timeout == 30
\* def search_s3_vectors(..., top_k: int = 5), part_009 line 65
TopK == 5

Callers == 1..NumCallers

VARIABLES
    \* ---- CircuitBreaker fields (lines 238-243)
    state,              \* self.state
    failure_count,      \* self.failure_count
    last_failure_time,  \* self.last_failure_time
    \* ---- environment
    now,                \* time.time()
    \* ---- one wrapper activation per caller
    pc,                 \* the line the caller is at ("idle": not in a call)
    tmp,                \* the value of failure_count loaded by line 261
    result,             \* the wrapper's local  result  (line 255)
    \* ---- history, read by the properties only
    trial,              \* the caller's call is the one that set HALF_OPEN
    openedAt,           \* when state last changed from not OPEN to OPEN
    consecFails,        \* failed calls since the last successful call
    \* ---- verify_response_accuracy (lines 178-205)
    response,           \* the answer text, a sequence of characters
    source_chunks,      \* the texts of the chunks it is verified against
    verification,       \* the dict the function returned, once it has
    disclaimed,         \* what add_confidence_disclaimer returned, once it has
    \* ---- one request in the pipeline
    pstate,             \* the state of the request
    retrieved,          \* what the repository returned, ScoredChunks
    ranked,             \* the ranker's top K
    prompt,             \* the prompt that was built, if one was
    modelCalls,         \* calls of the generative model for the request
    answer,             \* the Answer the request was given
    \* ---- the Q&A page: BookQA (part_004) and QuestionForm
    selectedBook,       \* BookQA state selectedBook, "" when none is chosen
    question,           \* QuestionForm state question, the textarea's text
    loading,            \* BookQA state loading
    error,              \* BookQA state error, "" when there is none
    qaAnswer,           \* BookQA state answer, "null" or the answer shown
    answerFor,          \* history: the book_title of the request that answer replied to
    sent,               \* the bodies of the POST /query requests sent
    served,             \* how many of them the backend has started on
    replied,            \* how many of them have been answered
    submits,            \* history: submissions so far
    submitted,          \* history: the last submission
    \* ---- the Content Filter
    ftext,              \* the text, filtered as often as apply was called
    fresults,           \* what each apply returned, in order
    stats,              \* cumulative matches per category
    \* ---- authentication: App.tsx, Auth.tsx, utils/simple-auth.ts
    cachedUser,         \* userPool.getCurrentUser() is not null
    session,            \* the cached user's session: "none", "valid", "expired"
    appLoading,         \* App state loading
    isAuthenticated,    \* App state isAuthenticated
    user,               \* App state user: "null" or "user"
    currentPage,        \* App state currentPage: "qa", "upload" or "repo"
    isLogin,            \* Auth state isLogin: the form is the login form
    checkPending,       \* checkAuthStatus is awaiting checkAuth()
    infoPending,        \* the Cognito callback checkAuthStatus's getUserInfo() waits for, or "none"
    effectPending,      \* Auth is mounted and its effect has not run yet
    loginPending,       \* Auth.handleLogin is awaiting loginUser()
    pcLogout,           \* where the asynchronous logout() is, "none" if not
    loggedOut,          \* history: Logout was clicked and no login succeeded since
    \* BookUpload (part_001)
    file,               \* state file: NoFile or the chosen File
    isLoading,          \* state isLoading
    uploadError,        \* state error of BookUpload
    success,            \* state success
    reader,             \* the FileReader and the request: "idle", "reading", "uploading"
    uploaded,           \* history: the files handed to uploadBook
    \* the browser's storage (simple-auth.ts safeClearAuth, part_008 logout)
    localStorage,       \* the keys of localStorage, in the order of key(i)
    sessionStorage,     \* the keys of sessionStorage, in the order of key(i)
    cleared,            \* which clearing code has run: "none", "safeClearAuth", "logout"
    storedBefore,       \* history: both storages before the clearing code ran
    storedApiKey,       \* localStorage.getItem('api_key'): "null" or the value
    \* useBooks (part_005)
    books,              \* state books: the titles, in order
    booksLoading,       \* state loading of useBooks
    booksError,         \* state error of useBooks: "null" or the message
    fetchPc,            \* where fetchBooks is: "idle", "apiClient", "directFetch"
    lastFetch,          \* history: how the last fetchBooks ended, "none" before
    \* apiRequest (utils/api-client.ts)
    reqPc,              \* "idle", or the endpoint of the apiRequest awaiting the token
    requests,           \* history: the requests handed to fetch, in order
    \* Auth with email verification (components/AnswerDisplay.tsx lines 138-431)
    isVerifying,        \* state isVerifying
    verificationCode,   \* state verificationCode
    authError,          \* state error of Auth
    authLoading,        \* state loading of Auth
    authPc,             \* the call Auth awaits: "idle", "loginUser", "registerUser",
                        \* "confirmRegistration"
    lastConfirm         \* history: how the last confirmRegistration ended

breakerVars == <<state, failure_count, last_failure_time, now, pc, tmp, result,
                 trial, openedAt, consecFails>>

verifyVars == <<response, source_chunks, verification, disclaimed>>

pipelineVars == <<pstate, retrieved, ranked, prompt, modelCalls, answer>>

formVars == <<selectedBook, question, loading, error, qaAnswer, answerFor, sent, served,
              replied, submits, submitted>>

filterVars == <<ftext, fresults, stats>>

authVars == <<cachedUser, session, appLoading, isAuthenticated, user,
              currentPage, isLogin, checkPending, infoPending, effectPending,
              loginPending, pcLogout, loggedOut>>

uploadVars == <<file, isLoading, uploadError, success, reader, uploaded>>

storageVars == <<localStorage, sessionStorage, cleared, storedBefore, storedApiKey>>

booksVars == <<books, booksLoading, booksError, fetchPc, lastFetch>>

requestVars == <<reqPc, requests>>

confirmVars == <<isVerifying, verificationCode, authError, authLoading, authPc,
                 lastConfirm>>

pagesVars == <<uploadVars, storageVars, booksVars, requestVars, confirmVars>>

vars == <<breakerVars, verifyVars, pipelineVars, formVars, filterVars, authVars,
          pagesVars>>

Min(a, b) == IF a < b THEN a ELSE b

\* what the wrapped function can return: the model's response (line 276) or
\* the handler's value (line 279)
Returned == {"response", "fallback"}

\* a request as it is received: nothing retrieved, no prompt, no Answer
InitPipeline ==
    /\ pstate = "RECEIVED"
    /\ retrieved = <<>>
    /\ ranked = <<>>
    /\ prompt = [built |-> FALSE]
    /\ modelCalls = 0
    /\ answer = [given |-> FALSE]

\* no call of verify_response_accuracy is modelled
NoVerification ==
    /\ response = <<>>
    /\ source_chunks = <<>>
    /\ verification = [done |-> FALSE]
    /\ disclaimed = [done |-> FALSE]

\* part_004 lines 13-16 and QuestionForm line 31: the useState defaults
InitForm ==
    /\ selectedBook = ""
    /\ question = <<>>
    /\ loading = FALSE
    /\ error = ""
    /\ qaAnswer = "null"
    /\ answerFor = ""
    /\ sent = <<>>
    /\ served = 0
    /\ replied = 0
    /\ submits = 0
    /\ submitted = [handler |-> "none"]

\* App.tsx lines 13-21: App as it is mounted, checkAuthStatus under way
AppMounted ==
    /\ appLoading = TRUE
    /\ isAuthenticated = FALSE
    /\ user = "null"
    /\ currentPage = "qa"
    /\ isLogin = TRUE
    /\ checkPending = TRUE
    /\ infoPending = "none"
    /\ effectPending = FALSE
    /\ loginPending = FALSE
    /\ pcLogout = "none"

\* a browser that holds no Cognito user
InitAuth ==
    /\ cachedUser = FALSE
    /\ session = "none"
    /\ loggedOut = FALSE
    /\ AppMounted

\* the filter categories and the statistics at process start
Categories == {"profanity", "insult"}

InitFilter ==
    /\ ftext = <<>>
    /\ fresults = <<>>
    /\ stats = [cat \in Categories |-> 0]

\* part_001 line 10: the null of the state file
NoFile == [text |-> "null"]

\* part_001 lines 10-13: BookUpload as mounted
InitUpload ==
    /\ file = NoFile
    /\ isLoading = FALSE
    /\ uploadError = ""
    /\ success = ""
    /\ reader = "idle"
    /\ uploaded = {}

\* a browser with nothing stored
InitStorage ==
    /\ localStorage = <<>>
    /\ sessionStorage = <<>>
    /\ cleared = "none"
    /\ storedBefore = [local |-> <<>>, session |-> <<>>]
    /\ storedApiKey = "null"

\* no request of the API client under way
InitRequest ==
    /\ reqPc = "idle"
    /\ requests = <<>>

\* part_005 lines 19-21 and 110-112: useBooks as mounted; its effect has
\* called fetchBooks, which awaits listBooks()
InitBooks ==
    /\ books = <<>>
    /\ booksLoading = TRUE
    /\ booksError = "null"
    /\ fetchPc = "apiClient"
    /\ lastFetch = "none"

\* AnswerDisplay.tsx lines 147-156: the state of Auth as mounted
InitConfirm ==
    /\ isVerifying = FALSE
    /\ verificationCode = <<>>
    /\ authError = ""
    /\ authLoading = FALSE
    /\ authPc = "idle"
    /\ lastConfirm = "none"

\* the pages and helpers outside the answer path, as loaded
InitPages ==
    InitUpload /\ InitStorage /\ InitBooks /\ InitRequest /\ InitConfirm

\* lines 238-243: CircuitBreaker.__init__
InitBreaker ==
    /\ state = "CLOSED"
    /\ failure_count = 0
    /\ last_failure_time = 0
    /\ now = 0
    /\ pc = [c \in Callers |-> "idle"]
    /\ tmp = [c \in Callers |-> 0]
    /\ result = [c \in Callers |-> "none"]
    /\ trial = [c \in Callers |-> FALSE]
    /\ openedAt = 0
    /\ consecFails = 0

(***************************************************************************)
(* CircuitBreaker                                                          *)
(***************************************************************************)
\* line 249: time.time() - self.last_failure_time > self.recovery_timeout
TimeoutElapsedInclusive(t, last) == t - last >= recovery_timeout
TimeoutElapsed(t, last) == t - last > recovery_timeout

\* line 264: self.failure_count >= self.failure_threshold
ThresholdReachedOffByOne(n) == n > failure_threshold
ThresholdReached(n) == n >= failure_threshold

\* time passes while callers are outside the wrapper or inside the wrapped
\* function; the wrapper's own statements take no time on this clock
Tick ==
    /\ now + TickStep <= MaxTime
    /\ \A c \in Callers : pc[c] \in {"idle", "l255"}
    /\ now' = now + TickStep
    /\ UNCHANGED <<state, failure_count, last_failure_time, pc, tmp, result,
                   trial, openedAt, consecFails>>
    /\ UNCHANGED <<verifyVars, pipelineVars, formVars, filterVars, authVars, pagesVars>>

\* the caller leaves the wrapper
Leave(c) ==
    /\ pc' = [pc EXCEPT ![c] = "idle"]
    /\ result' = [result EXCEPT ![c] = "none"]
    /\ trial' = [trial EXCEPT ![c] = FALSE]

\* line 248: if self.state == 'OPEN'
Call(c) ==
    /\ pc[c] = "idle"
    /\ pc' = [pc EXCEPT ![c] = IF state = "OPEN" THEN "l249" ELSE "l255"]
    /\ UNCHANGED <<state, failure_count, last_failure_time, now, tmp, result,
                   trial, openedAt, consecFails>>
    /\ UNCHANGED <<verifyVars, pipelineVars, formVars, filterVars, authVars, pagesVars>>

\* lines 249-251: the recovery_timeout test, then HALF_OPEN or on to the raise
CheckTimeout(c) ==
    /\ pc[c] = "l249"
    /\ IF TimeoutElapsed(now, last_failure_time)
       THEN /\ state' = "HALF_OPEN"
            /\ pc' = [pc EXCEPT ![c] = "l255"]
            /\ trial' = [trial EXCEPT ![c] = TRUE]
       ELSE /\ pc' = [pc EXCEPT ![c] = "l252"]
            /\ UNCHANGED <<state, trial>>
    /\ UNCHANGED <<failure_count, last_failure_time, now, tmp, result,
                   openedAt, consecFails>>
    /\ UNCHANGED <<verifyVars, pipelineVars, formVars, filterVars, authVars, pagesVars>>

\* line 252: raise Exception("Circuit breaker is OPEN")
RaiseOpen(c) ==
    /\ pc[c] = "l252"
    /\ Leave(c)
    /\ UNCHANGED <<state, failure_count, last_failure_time, now, tmp,
                   openedAt, consecFails>>
    /\ UNCHANGED <<verifyVars, pipelineVars, formVars, filterVars, authVars, pagesVars>>

\* lines 273-279: get_llm_response_with_fallback, the wrapped function.
\* get_llm_response returns ("response", line 276), or it raises and the
\* handler returns the cached response or else the fixed apology ("fallback",
\* line 279); the wrapped function raises only when the handler itself does.
\* line 255, the call returning: result = func(*args, **kwargs)
FuncReturns(c, out) ==
    /\ pc[c] = "l255"
    /\ out \in Returned
    /\ pc' = [pc EXCEPT ![c] = "l256"]
    /\ result' = [result EXCEPT ![c] = out]
    /\ UNCHANGED <<state, failure_count, last_failure_time, now, tmp,
                   trial, openedAt, consecFails>>
    /\ UNCHANGED <<verifyVars, pipelineVars, formVars, filterVars, authVars, pagesVars>>

\* line 255, the call raising: control goes to the except clause, line 260
FuncRaises(c) ==
    /\ pc[c] = "l255"
    /\ failure_count < MaxFailures
    /\ pc' = [pc EXCEPT ![c] = "l261"]
    /\ UNCHANGED <<state, failure_count, last_failure_time, now, tmp, result,
                   trial, openedAt, consecFails>>
    /\ UNCHANGED <<verifyVars, pipelineVars, formVars, filterVars, authVars, pagesVars>>

\* line 256: if self.state == 'HALF_OPEN'
CheckHalfOpen(c) ==
    /\ pc[c] = "l256"
    /\ pc' = [pc EXCEPT ![c] = IF state = "HALF_OPEN" THEN "l257" ELSE "l259"]
    /\ UNCHANGED <<state, failure_count, last_failure_time, now, tmp, result,
                   trial, openedAt, consecFails>>
    /\ UNCHANGED <<verifyVars, pipelineVars, formVars, filterVars, authVars, pagesVars>>

\* line 257: self.state = 'CLOSED'
SetClosed(c) ==
    /\ pc[c] = "l257"
    /\ state' = "CLOSED"
    /\ pc' = [pc EXCEPT ![c] = "l258"]
    /\ UNCHANGED <<failure_count, last_failure_time, now, tmp, result,
                   trial, openedAt, consecFails>>
    /\ UNCHANGED <<verifyVars, pipelineVars, formVars, filterVars, authVars, pagesVars>>

\* line 258 left out: the counter survives the trial
ResetCountMissing(c) ==
    /\ pc[c] = "l258"
    /\ pc' = [pc EXCEPT ![c] = "l259"]
    /\ UNCHANGED <<state, failure_count, last_failure_time, now, tmp, result,
                   trial, openedAt, consecFails>>
    /\ UNCHANGED <<verifyVars, pipelineVars, formVars, filterVars, authVars, pagesVars>>

\* line 258: self.failure_count = 0
ResetCount(c) ==
    /\ pc[c] = "l258"
    /\ failure_count' = 0
    /\ pc' = [pc EXCEPT ![c] = "l259"]
    /\ UNCHANGED <<state, last_failure_time, now, tmp, result,
                   trial, openedAt, consecFails>>
    /\ UNCHANGED <<verifyVars, pipelineVars, formVars, filterVars, authVars, pagesVars>>

\* line 259: return result
Return(c) ==
    /\ pc[c] = "l259"
    /\ Leave(c)
    /\ consecFails' = 0
    /\ UNCHANGED <<state, failure_count, last_failure_time, now, tmp,
                   openedAt>>
    /\ UNCHANGED <<verifyVars, pipelineVars, formVars, filterVars, authVars, pagesVars>>

\* line 261, first half: the load of self.failure_count
LoadCount(c) ==
    /\ pc[c] = "l261"
    /\ tmp' = [tmp EXCEPT ![c] = failure_count]
    /\ pc' = [pc EXCEPT ![c] = "l261w"]
    /\ UNCHANGED <<state, failure_count, last_failure_time, now, result,
                   trial, openedAt, consecFails>>
    /\ UNCHANGED <<verifyVars, pipelineVars, formVars, filterVars, authVars, pagesVars>>

\* line 261, second half: the store of the loaded value plus one
StoreCount(c) ==
    /\ pc[c] = "l261w"
    /\ failure_count' = tmp[c] + 1
    /\ tmp' = [tmp EXCEPT ![c] = 0]
    /\ pc' = [pc EXCEPT ![c] = "l262"]
    /\ UNCHANGED <<state, last_failure_time, now, result,
                   trial, openedAt, consecFails>>
    /\ UNCHANGED <<verifyVars, pipelineVars, formVars, filterVars, authVars, pagesVars>>

\* line 262 left out: the time of the failure is not recorded
StampFailureMissing(c) ==
    /\ pc[c] = "l262"
    /\ pc' = [pc EXCEPT ![c] = "l264"]
    /\ UNCHANGED <<state, failure_count, last_failure_time, now, tmp, result,
                   trial, openedAt, consecFails>>
    /\ UNCHANGED <<verifyVars, pipelineVars, formVars, filterVars, authVars, pagesVars>>

\* line 262: self.last_failure_time = time.time()
StampFailure(c) ==
    /\ pc[c] = "l262"
    /\ last_failure_time' = now
    /\ pc' = [pc EXCEPT ![c] = "l264"]
    /\ UNCHANGED <<state, failure_count, now, tmp, result,
                   trial, openedAt, consecFails>>
    /\ UNCHANGED <<verifyVars, pipelineVars, formVars, filterVars, authVars, pagesVars>>

\* line 264: if self.failure_count >= self.failure_threshold
CheckThreshold(c) ==
    /\ pc[c] = "l264"
    /\ pc' = [pc EXCEPT ![c] =
                IF ThresholdReached(failure_count) THEN "l265" ELSE "l267"]
    /\ UNCHANGED <<state, failure_count, last_failure_time, now, tmp, result,
                   trial, openedAt, consecFails>>
    /\ UNCHANGED <<verifyVars, pipelineVars, formVars, filterVars, authVars, pagesVars>>

\* line 265: self.state = 'OPEN'
SetOpen(c) ==
    /\ pc[c] = "l265"
    /\ state' = "OPEN"
    /\ openedAt' = IF state = "OPEN" THEN openedAt ELSE now
    /\ pc' = [pc EXCEPT ![c] = "l267"]
    /\ UNCHANGED <<failure_count, last_failure_time, now, tmp, result,
                   trial, consecFails>>
    /\ UNCHANGED <<verifyVars, pipelineVars, formVars, filterVars, authVars, pagesVars>>

\* line 267: raise e
Reraise(c) ==
    /\ pc[c] = "l267"
    /\ Leave(c)
    /\ consecFails' = Min(consecFails + 1, failure_threshold)
    /\ UNCHANGED <<state, failure_count, last_failure_time, now, tmp, openedAt>>
    /\ UNCHANGED <<verifyVars, pipelineVars, formVars, filterVars, authVars, pagesVars>>

\* lines 247-267: one step of caller c in wrapper
Step(c) ==
    \/ Call(c)
    \/ CheckTimeout(c)
    \/ RaiseOpen(c)
    \/ \E out \in Returned : FuncReturns(c, out)
    \/ FuncRaises(c)
    \/ CheckHalfOpen(c)
    \/ SetClosed(c)
    \/ ResetCount(c)
    \/ Return(c)
    \/ LoadCount(c)
    \/ StoreCount(c)
    \/ StampFailure(c)
    \/ CheckThreshold(c)
    \/ SetOpen(c)
    \/ Reraise(c)

\* callers on threads of one process: any interleaving of their statements
Next ==
    \/ Tick
    \/ \E c \in Callers : Step(c)

Init ==
    /\ InitBreaker /\ NoVerification /\ InitPipeline /\ InitForm /\ InitFilter /\ InitAuth
    /\ InitPages

Spec == Init /\ [][Next]_vars

\* one call at a time: a caller enters the wrapper only when no other is in it
CallAlone(c) ==
    /\ \A d \in Callers \ {c} : pc[d] = "idle"
    /\ Call(c)

StepSeq(c) ==
    \/ CallAlone(c)
    \/ CheckTimeout(c)
    \/ RaiseOpen(c)
    \/ \E out \in Returned : FuncReturns(c, out)
    \/ FuncRaises(c)
    \/ CheckHalfOpen(c)
    \/ SetClosed(c)
    \/ ResetCount(c)
    \/ Return(c)
    \/ LoadCount(c)
    \/ StoreCount(c)
    \/ StampFailure(c)
    \/ CheckThreshold(c)
    \/ SetOpen(c)
    \/ Reraise(c)

NextSeq ==
    \/ Tick
    \/ \E c \in Callers : StepSeq(c)

SpecSeq == Init /\ [][NextSeq]_vars

(***************************************************************************)
(* verify_response_accuracy (lines 178-205)                                *)
(*                                                                         *)
(* A string is the sequence of its characters.  The score, a float in the *)
(* code, is kept as the fraction <<numerator, denominator>> and compared   *)
(* with 0.8 and 0.5 exactly.                                               *)
(***************************************************************************)
\* the texts the inputs are built from
Pieces == {<<"a">>, <<"B">>, <<" ">>, <<".", " ">>}
ChunkTexts == {<<"a">>, <<"A", " ", "b">>}

RECURSIVE Flatten(_)
Flatten(ss) == IF ss = <<>> THEN <<>> ELSE Head(ss) \o Flatten(Tail(ss))

SeqsUpTo(S, n) == UNION {[1..k -> S] : k \in 0..n}

\* str.lower()
LowerChar(ch) == IF ch = "A" THEN "a" ELSE IF ch = "B" THEN "b" ELSE ch
Lower(s) == [i \in 1..Len(s) |-> LowerChar(s[i])]

\* str.find(sep) + 1: the first place sep occurs in s, 0 when it does not
Find(s, sep) ==
    LET hits == {i \in 1..(Len(s) - Len(sep) + 1) :
                    SubSeq(s, i, i + Len(sep) - 1) = sep}
    IN  IF hits = {} THEN 0 ELSE CHOOSE i \in hits : \A j \in hits : i <= j

\* keyword in chunk.lower(), line 190
Contains(hay, needle) == Find(hay, needle) # 0

\* str.split(sep), line 185: never an empty list
RECURSIVE Split(_, _)
Split(s, sep) ==
    LET i == Find(s, sep)
    IN  IF i = 0 THEN <<s>>
        ELSE <<SubSeq(s, 1, i - 1)>> \o Split(SubSeq(s, i + Len(sep), Len(s)), sep)

\* str.split(), line 190: the words between runs of whitespace
RECURSIVE Words(_)
Words(s) ==
    IF s = <<>> THEN <<>>
    ELSE IF Head(s) = " " THEN Words(Tail(s))
    ELSE LET sp == Find(s, <<" ">>)
         IN  IF sp = 0 THEN <<s>>
             ELSE <<SubSeq(s, 1, sp - 1)>> \o Words(SubSeq(s, sp + 1, Len(s)))

\* seq[:n]
Take(s, n) == SubSeq(s, 1, Min(Len(s), n))

\* lines 188-193: one of the claim's first three words is in some chunk
ClaimVerified(claim, chunks) ==
    \E k \in 1..Len(chunks) :
        LET keywords == Take(Words(Lower(claim)), 3)
        IN  \E j \in 1..Len(keywords) : Contains(Lower(chunks[k]), keywords[j])

\* line 198 with the operands of the division exchanged
VerificationScoreSwapped(nVerified, nClaims) ==
    IF nClaims > 0 THEN <<nClaims, nVerified>> ELSE <<0, 1>>

\* line 198: len(verified_claims) / len(claims) if claims else 0
VerificationScore(nVerified, nClaims) ==
    IF nClaims > 0 THEN <<nVerified, nClaims>> ELSE <<0, 1>>

\* score > num/den, for a score <<n, d>> with d > 0
ScoreAbove(score, num, den) == score[1] * den > num * score[2]
\* score >= num/den
ScoreAtLeast(score, num, den) == score[1] * den >= num * score[2]

\* line 204: 'high' if verification_score > 0.8 else 'medium' if
\* verification_score > 0.5 else 'low'
ConfidenceLevel(score) ==
    IF ScoreAbove(score, 8, 10) THEN "high"
    ELSE IF ScoreAbove(score, 5, 10) THEN "medium"
    ELSE "low"

\* lines 178-205
verify_response_accuracy(resp, chunks) ==
    LET claims == Split(resp, <<".", " ">>)
        ok(claim) == ClaimVerified(claim, chunks)
        notOk(claim) == ~ClaimVerified(claim, chunks)
        verified_claims == SelectSeq(claims, ok)
        unverified_claims == SelectSeq(claims, notOk)
        verification_score == VerificationScore(Len(verified_claims), Len(claims))
    IN  [ done |-> TRUE,
          verification_score |-> verification_score,
          verified_claims |-> verified_claims,
          unverified_claims |-> unverified_claims,
          confidence_level |-> ConfidenceLevel(verification_score) ]

\* every answer text and list of source chunks within the bounds
InitVerify ==
    /\ response \in {Flatten(ps) : ps \in SeqsUpTo(Pieces, MaxPieces)}
    /\ source_chunks \in SeqsUpTo(ChunkTexts, MaxChunks)
    /\ verification = [done |-> FALSE]
    /\ disclaimed = [done |-> FALSE]

\* the call verify_response_accuracy(response, source_chunks)
Verify ==
    /\ ~verification.done
    /\ verification' = verify_response_accuracy(response, source_chunks)
    /\ UNCHANGED <<response, source_chunks, disclaimed, breakerVars,
                   pipelineVars, formVars, filterVars, authVars, pagesVars>>

\* score < num/den, for a score <<n, d>> with d > 0
ScoreBelow(score, num, den) == score[1] * den < num * score[2]

\* lines 211, 213, 215: the disclaimers; the two line feeds, then the
\* sentence that names the level
Disclaimer(level) ==
    <<"\n", "\n", IF level = "low" THEN "Confidence Level: Low"
                  ELSE IF level = "medium" THEN "Confidence Level: Medium"
                  ELSE "Confidence Level: High">>

\* lines 210-215: the level add_confidence_disclaimer picks for a score
DisclaimerLevel(score) ==
    IF ScoreBelow(score, 5, 10) THEN "low"
    ELSE IF ScoreBelow(score, 8, 10) THEN "medium"
    ELSE "high"

\* a low-confidence answer is held back: the disclaimer alone is returned
add_confidence_disclaimer_withholding(resp, score) ==
    IF DisclaimerLevel(score) = "low" THEN Disclaimer("low")
    ELSE resp \o Disclaimer(DisclaimerLevel(score))

\* lines 208-217
add_confidence_disclaimer(resp, score) ==
    resp \o Disclaimer(DisclaimerLevel(score))

\* the call add_confidence_disclaimer(response, verification_score) with the
\* score verify_response_accuracy returned
Disclaim ==
    /\ verification.done
    /\ ~disclaimed.done
    /\ disclaimed' =
          [ done |-> TRUE,
            text |-> add_confidence_disclaimer(response,
                                               verification.verification_score) ]
    /\ UNCHANGED <<response, source_chunks, verification, breakerVars,
                   pipelineVars, formVars, filterVars, authVars, pagesVars>>

NextVerify == Verify \/ Disclaim

InitV ==
    /\ InitVerify /\ InitBreaker /\ InitPipeline /\ InitForm /\ InitFilter /\ InitAuth
    /\ InitPages

SpecVerify == InitV /\ [][NextVerify]_vars

(***************************************************************************)
(* The request pipeline (sections 4.1 to 4.6 of the specification; the     *)
(* query handler itself is not among the sources)                          *)
(***************************************************************************)
\* scores are hundredths: 90 is 0.9
SemanticScores == {30, 90}
KeywordScores == {0, 100}

\* the ScoredChunks the repository can hold for the book
ScoredChunks ==
    [ sequence_number : 1..MaxRetrieved,
      len : 1..MaxChunkLen,
      semantic_score : SemanticScores,
      keyword_score : KeywordScores ]

\* section 4.1: descending similarity, ties by ascending sequence_number
RepositoryOrder(a, b) ==
    \/ a.semantic_score > b.semantic_score
    \/ a.semantic_score = b.semantic_score /\ a.sequence_number < b.sequence_number

\* the chunks of a set in the repository's order
RECURSIVE SortRepository(_)
SortRepository(S) ==
    IF S = {} THEN <<>>
    ELSE LET first == CHOOSE x \in S : \A y \in S \ {x} : RepositoryOrder(x, y)
         IN  <<first>> \o SortRepository(S \ {first})

\* section 4.1, querySimilar: the chunks stored for the book, at most topK
\* (search_s3_vectors, part_009 lines 65-79)
StoredBooks ==
    { {ch[n] : n \in {m \in 1..MaxRetrieved : ch[m] # <<>>}} :
        ch \in { f \in [1..MaxRetrieved -> ScoredChunks \cup {<<>>}] :
                   \A n \in 1..MaxRetrieved :
                       f[n] # <<>> => f[n].sequence_number = n } }

QueryResults == { Take(SortRepository(S), TopK) : S \in StoredBooks }

\* section 4.2: combined_score = 0.7 semantic + 0.3 keyword, clamped to [0,1]
CombinedScore(ch) ==
    LET w == (70 * ch.semantic_score + 30 * ch.keyword_score) \div 100
    IN  IF w < 0 THEN 0 ELSE IF w > 100 THEN 100 ELSE w

\* the order without the tie-break on semantic_score
RankOrderSkipsSemantic(a, b) ==
    \/ CombinedScore(a) > CombinedScore(b)
    \/ /\ CombinedScore(a) = CombinedScore(b)
       /\ a.sequence_number < b.sequence_number

\* section 4.2: combined_score descending, then semantic_score descending,
\* then sequence_number ascending
RankOrder(a, b) ==
    \/ CombinedScore(a) > CombinedScore(b)
    \/ /\ CombinedScore(a) = CombinedScore(b)
       /\ \/ a.semantic_score > b.semantic_score
          \/ /\ a.semantic_score = b.semantic_score
             /\ a.sequence_number < b.sequence_number

\* the chunks of a set in the ranker's order
RECURSIVE SortRank(_)
SortRank(S) ==
    IF S = {} THEN <<>>
    ELSE LET first == CHOOSE x \in S : \A y \in S \ {x} : RankOrder(x, y)
         IN  <<first>> \o SortRank(S \ {first})

\* section 4.2: the top K of the candidates
HybridRank(cands) ==
    Take(SortRank({cands[i] : i \in 1..Len(cands)}), TopK)

\* greedy packing that fills the rest of the budget with the start of the
\* chunk that does not fit
RECURSIVE PackTruncating(_, _)
PackTruncating(chunks, room) ==
    IF chunks = <<>> \/ room = 0 THEN <<>>
    ELSE IF Head(chunks).len > room
         THEN <<[Head(chunks) EXCEPT !.len = room]>>
         ELSE <<Head(chunks)>> \o PackTruncating(Tail(chunks), room - Head(chunks).len)

\* section 4.4, greedy packing: the chunks in ranking order while their
\* lengths stay within the budget; none is cut
RECURSIVE Pack(_, _)
Pack(chunks, room) ==
    IF chunks = <<>> \/ Head(chunks).len > room THEN <<>>
    ELSE <<Head(chunks)>> \o Pack(Tail(chunks), room - Head(chunks).len)

\* section 4.4: the citation marker of a chunk
Citations(chunks) == [i \in 1..Len(chunks) |-> chunks[i].sequence_number]

\* section 4.4: the fixed Answer of a request that found no context
InsufficientAnswer ==
    [ given |-> TRUE,
      text |-> "insufficient_information",
      confidence |-> "low",
      verification_score |-> <<0, 1>>,
      citations |-> <<>> ]

\* section 4.4 without the short circuit: the assembler always runs
AfterRankingAlwaysAssembles(top) == "ASSEMBLING"

\* section 4.4: zero chunks short-circuit the assembler
AfterRanking(top) == IF top = <<>> THEN "NO_CONTEXT" ELSE "ASSEMBLING"

PipelineOnly ==
    UNCHANGED <<breakerVars, verifyVars, formVars, filterVars, authVars, pagesVars>>

\* RECEIVED -> EMBEDDING
StartEmbedding ==
    /\ pstate = "RECEIVED"
    /\ pstate' = "EMBEDDING"
    /\ UNCHANGED <<retrieved, ranked, prompt, modelCalls, answer>>
    /\ PipelineOnly

\* EMBEDDING -> RETRIEVING, the embedding service having answered
Embedded ==
    /\ pstate = "EMBEDDING"
    /\ pstate' = "RETRIEVING"
    /\ UNCHANGED <<retrieved, ranked, prompt, modelCalls, answer>>
    /\ PipelineOnly

\* a failure is taken for fatal in the synthesis step as well
FailableStatesWithSynthesis == {"EMBEDDING", "RETRIEVING", "SYNTHESIZING"}

\* the steps that call the embedding service and the vector store, whose
\* failure is fatal (EmbeddingError, RetrievalError; section 7)
FailableStates == {"EMBEDDING", "RETRIEVING"}

\* EMBEDDING or RETRIEVING -> FAILED: EmbeddingError, RetrievalError after
\* the retries (section 7)
InfrastructureFailure ==
    /\ pstate \in FailableStates
    /\ pstate' = "FAILED"
    /\ UNCHANGED <<retrieved, ranked, prompt, modelCalls, answer>>
    /\ PipelineOnly

\* RETRIEVING -> RANKING with the repository's result, empty or not
Retrieve ==
    /\ pstate = "RETRIEVING"
    /\ \E found \in QueryResults : retrieved' = found
    /\ pstate' = "RANKING"
    /\ UNCHANGED <<ranked, prompt, modelCalls, answer>>
    /\ PipelineOnly

\* RANKING -> NO_CONTEXT or ASSEMBLING
Rank ==
    /\ pstate = "RANKING"
    /\ ranked' = HybridRank(retrieved)
    /\ pstate' = AfterRanking(ranked')
    /\ UNCHANGED <<retrieved, prompt, modelCalls, answer>>
    /\ PipelineOnly

\* NO_CONTEXT -> RESPONDED with the fixed Answer
RespondNoContext ==
    /\ pstate = "NO_CONTEXT"
    /\ answer' = InsufficientAnswer
    /\ pstate' = "RESPONDED"
    /\ UNCHANGED <<retrieved, ranked, prompt, modelCalls>>
    /\ PipelineOnly

\* ASSEMBLING -> SYNTHESIZING with the prompt built
Assemble ==
    /\ pstate = "ASSEMBLING"
    /\ prompt' = [built |-> TRUE, chunks |-> Pack(ranked, PromptBudget)]
    /\ pstate' = "SYNTHESIZING"
    /\ UNCHANGED <<retrieved, ranked, modelCalls, answer>>
    /\ PipelineOnly

\* SYNTHESIZING -> FILTERING_OUTPUT: the model is called and answers or
\* fails, or the breaker is OPEN and it is not called (section 4.5)
Synthesize ==
    /\ pstate = "SYNTHESIZING"
    /\ \E how \in {"generated", "failed", "rejected"} :
          /\ modelCalls' = IF how = "rejected" THEN modelCalls ELSE modelCalls + 1
          /\ answer' = [given |-> FALSE,
                        text |-> IF how = "generated" THEN "generated"
                                 ELSE "fallback"]
    /\ pstate' = "FILTERING_OUTPUT"
    /\ UNCHANGED <<retrieved, ranked, prompt>>
    /\ PipelineOnly

\* FILTERING_OUTPUT -> VERIFYING
FilterOutput ==
    /\ pstate = "FILTERING_OUTPUT"
    /\ pstate' = "VERIFYING"
    /\ UNCHANGED <<retrieved, ranked, prompt, modelCalls, answer>>
    /\ PipelineOnly

\* VERIFYING -> RESPONDED: the fallback text is low confidence (section
\* 4.5), a generated one is scored against the chunks of the prompt
VerifyAnswer ==
    /\ pstate = "VERIFYING"
    /\ \E nClaims \in 1..MaxClaims : \E nVerified \in 0..nClaims :
          LET score == IF answer.text = "fallback" THEN <<0, 1>>
                       ELSE VerificationScore(nVerified, nClaims)
          IN  answer' = [ given |-> TRUE,
                          text |-> answer.text,
                          confidence |-> ConfidenceLevel(score),
                          verification_score |-> score,
                          citations |-> Citations(prompt.chunks) ]
    /\ pstate' = "RESPONDED"
    /\ UNCHANGED <<retrieved, ranked, prompt, modelCalls>>
    /\ PipelineOnly

NextPipeline ==
    \/ StartEmbedding
    \/ Embedded
    \/ InfrastructureFailure
    \/ Retrieve
    \/ Rank
    \/ RespondNoContext
    \/ Assemble
    \/ Synthesize
    \/ FilterOutput
    \/ VerifyAnswer

InitP ==
    /\ InitPipeline /\ InitBreaker /\ NoVerification /\ InitForm /\ InitFilter /\ InitAuth
    /\ InitPages

SpecPipeline == InitP /\ [][NextPipeline]_vars

\* the ranker on its own: every list of up to MaxCandidates candidates the
\* repository can hand over, among them chunks whose combined scores tie
TieSemanticScores == {30, 60}
TieKeywordScores == {0, 70}

RankCandidates ==
    { SortRepository({ [ sequence_number |-> n, len |-> 1,
                         semantic_score |-> sc[n][1],
                         keyword_score |-> sc[n][2] ] :
                       n \in {m \in 1..MaxCandidates : sc[m] # <<>>} }) :
        sc \in [1..MaxCandidates ->
                  (TieSemanticScores \X TieKeywordScores) \cup {<<>>}] }

InitRank ==
    /\ pstate = "RANKING"
    /\ retrieved \in RankCandidates
    /\ ranked = <<>>
    /\ prompt = [built |-> FALSE]
    /\ modelCalls = 0
    /\ answer = [given |-> FALSE]
    /\ InitBreaker /\ NoVerification /\ InitForm /\ InitFilter /\ InitAuth
    /\ InitPages

NextRank == Rank

SpecRank == InitRank /\ [][NextRank]_vars

(***************************************************************************)
(* The Q&A page: BookQA (part_004), QuestionForm (components/               *)
(* AnswerDisplay.tsx lines 23-64) and queryBook (utils/api-client.ts)       *)
(***************************************************************************)
\* the texts that can be typed: blanks and letters
QuestionChars == {" ", "q"}
QuestionTexts == SeqsUpTo(QuestionChars, MaxQuestionLen)

\* the values of the book selector: "Choose a book..." ("") or a title
BookChoices == {"", "book", "other"}

\* String.prototype.trim(): the text without the blanks at its ends
RECURSIVE TrimStart(_)
TrimStart(s) ==
    IF s # <<>> /\ Head(s) = " " THEN TrimStart(Tail(s)) ELSE s

RECURSIVE TrimEnd(_)
TrimEnd(s) ==
    IF s # <<>> /\ s[Len(s)] = " " THEN TrimEnd(SubSeq(s, 1, Len(s) - 1)) ELSE s

Trim(s) == TrimEnd(TrimStart(s))

NotForm ==
    UNCHANGED <<breakerVars, verifyVars, pipelineVars, filterVars, authVars, pagesVars>>

\* part_004 lines 79: disabled={loading || !selectedBook}
FormDisabled == loading \/ selectedBook = ""

\* part_004 lines 18-22: handleBookSelect
handleBookSelect(bookTitle) ==
    /\ bookTitle \in BookChoices
    /\ selectedBook' = bookTitle
    /\ qaAnswer' = "null"
    /\ error' = ""
    /\ UNCHANGED <<question, loading, answerFor, sent, served, replied, submits,
                   submitted>>
    /\ NotForm

\* QuestionForm lines 46-53: typing into the textarea, unless it is disabled
ChangeQuestion(text) ==
    /\ text \in QuestionTexts
    /\ ~FormDisabled
    /\ question' = text
    /\ UNCHANGED <<selectedBook, loading, error, qaAnswer, answerFor, sent,
                   served, replied, submits, submitted>>
    /\ NotForm

\* api-client.ts lines 79-81: queryBook posts {question, book_title} to /query
queryBook(questionText, bookTitle) ==
    sent' = Append(sent, [question |-> questionText, book_title |-> bookTitle])

\* part_004 lines 24-42: handleQuestionSubmit up to the await of queryBook
handleQuestionSubmit(questionText) ==
    IF selectedBook = ""
    THEN /\ error' = "Please select a book first"
         /\ UNCHANGED <<loading, qaAnswer, sent>>
    ELSE IF Trim(questionText) = <<>>
    THEN /\ error' = "Please enter a question"
         /\ UNCHANGED <<loading, qaAnswer, sent>>
    ELSE /\ loading' = TRUE
         /\ error' = ""
         /\ qaAnswer' = "null"
         /\ queryBook(questionText, selectedBook)

\* QuestionForm lines 33-39: handleSubmit, the form's submit handler
handleSubmit ==
    /\ submits < MaxSubmits
    /\ submits' = submits + 1
    /\ submitted' = [handler |-> "handleSubmit", question |-> question,
                     book_title |-> selectedBook]
    /\ IF Trim(question) # <<>> /\ ~FormDisabled
       THEN /\ handleQuestionSubmit(question)
            /\ question' = <<>>
       ELSE UNCHANGED <<question, loading, error, qaAnswer, sent>>
    /\ UNCHANGED <<selectedBook, answerFor, served, replied>>
    /\ NotForm

\* part_004 lines 24-55: handleQuestionSubmit called with any text
CallHandleQuestionSubmit(questionText) ==
    /\ questionText \in QuestionTexts
    /\ submits < MaxSubmits
    /\ submits' = submits + 1
    /\ submitted' = [handler |-> "handleQuestionSubmit",
                     question |-> questionText, book_title |-> selectedBook]
    /\ handleQuestionSubmit(questionText)
    /\ UNCHANGED <<selectedBook, question, answerFor, served, replied>>
    /\ NotForm

\* the backend takes up a request that was sent: its pipeline starts
BackendReceives ==
    /\ served < Len(sent)
    /\ served' = served + 1
    /\ UNCHANGED <<selectedBook, question, loading, error, qaAnswer, answerFor,
                   sent, replied, submits, submitted>>
    /\ NotForm

\* part_004 lines 42-54: the await returns and the answer is shown
QueryResolves ==
    /\ replied < served
    /\ replied' = replied + 1
    /\ qaAnswer' = "answer"
    /\ answerFor' = sent[replied + 1].book_title
    /\ loading' = FALSE
    /\ UNCHANGED <<selectedBook, question, error, sent, served, submits,
                   submitted>>
    /\ NotForm

\* part_004 lines 49-54: the await throws (fetch failed, or not response.ok)
QueryRejects ==
    /\ replied < Len(sent)
    /\ replied' = replied + 1
    /\ served' = IF served > replied THEN served ELSE served + 1
    /\ error' = "Failed to get answer"
    /\ loading' = FALSE
    /\ UNCHANGED <<selectedBook, question, qaAnswer, answerFor, sent, submits,
                   submitted>>
    /\ NotForm

NextForm ==
    \/ \E b \in BookChoices : handleBookSelect(b)
    \/ \E text \in QuestionTexts : ChangeQuestion(text)
    \/ handleSubmit
    \/ \E text \in QuestionTexts : CallHandleQuestionSubmit(text)
    \/ BackendReceives
    \/ QueryResolves
    \/ QueryRejects

InitF ==
    /\ InitForm /\ InitBreaker /\ NoVerification /\ InitPipeline /\ InitFilter /\ InitAuth
    /\ InitPages

SpecForm == InitF /\ [][NextForm]_vars

(***************************************************************************)
(* The Content Filter (section 4.3 of the specification; utils/             *)
(* content_filter.py is not among the sources).  A text is the sequence of *)
(* its words.                                                              *)
(***************************************************************************)
\* the words texts are made of: clean ones, rule words in either case, and
\* a word that only contains a rule word
FilterWords == {"ok", "bad", "BAD", "badge", "ugly"}

\* lowercase of a word
LowerWord(w) == IF w = "BAD" THEN "bad" ELSE w

\* rules of which one replaces its word by the word of another rule
FilterRulesChained ==
    { [pattern |-> "bad", replacement |-> "[profanity]", category |-> "profanity"],
      [pattern |-> "ugly", replacement |-> "bad", category |-> "insult"] }

\* the FilterRules: pattern, category-tagged replacement, category
FilterRules ==
    { [pattern |-> "bad", replacement |-> "[profanity]", category |-> "profanity"],
      [pattern |-> "ugly", replacement |-> "[insult]", category |-> "insult"] }

\* the rules that match a word: whole word, case-insensitive
Matching(w) == {r \in FilterRules : r.pattern = LowerWord(w)}

\* the rule applied to a word that matches
RuleFor(w) == CHOOSE r \in Matching(w) : TRUE

\* the categories of the words of a text that match, in order
RECURSIVE MatchedCategories(_)
MatchedCategories(text) ==
    IF text = <<>> THEN <<>>
    ELSE (IF Matching(Head(text)) = {} THEN <<>>
          ELSE <<RuleFor(Head(text)).category>>) \o MatchedCategories(Tail(text))

\* how often a category is in a list of categories
Count(cats, cat) == Cardinality({i \in 1..Len(cats) : cats[i] = cat})

\* apply(text) -> (filtered_text, list of matched categories, match_count)
FilterApply(text) ==
    [ filtered_text |->
          [i \in 1..Len(text) |->
              IF Matching(text[i]) = {} THEN text[i]
              ELSE RuleFor(text[i]).replacement],
      categories |-> MatchedCategories(text),
      match_count |-> Len(MatchedCategories(text)) ]

NotFilter ==
    UNCHANGED <<breakerVars, verifyVars, pipelineVars, formVars, authVars, pagesVars>>

\* one call of apply on the text, which its result replaces; the cumulative
\* statistics grow by the matches of each category
ApplyFilter ==
    /\ Len(fresults) < MaxApplies
    /\ ftext' = FilterApply(ftext).filtered_text
    /\ fresults' = Append(fresults, FilterApply(ftext))
    /\ stats' = [cat \in Categories |->
                    stats[cat] + Count(FilterApply(ftext).categories, cat)]
    /\ NotFilter

NextFilter == ApplyFilter

\* any text within the bounds, statistics as at process start
InitFilterTexts ==
    /\ ftext \in SeqsUpTo(FilterWords, MaxWords)
    /\ fresults = <<>>
    /\ stats = [cat \in Categories |-> 0]
    /\ InitBreaker /\ NoVerification /\ InitPipeline /\ InitForm /\ InitAuth
    /\ InitPages

SpecFilter == InitFilterTexts /\ [][NextFilter]_vars

(***************************************************************************)
(* Authentication: App (frontend/src/App.tsx), Auth (components/Auth.tsx)  *)
(* and utils/simple-auth.ts                                                *)
(***************************************************************************)
NotAuth ==
    UNCHANGED <<breakerVars, verifyVars, pipelineVars, formVars, filterVars, pagesVars>>

\* App.tsx lines 124-139: what App renders
ShowsLoading == appLoading
ShowsAuth == ~appLoading /\ ~isAuthenticated
ShowsMain == ~appLoading /\ isAuthenticated

\* simple-auth.ts lines 35-63: getAuthToken resolves to a token exactly when
\* there is a current user whose session is valid
HasToken == cachedUser /\ session = "valid"

\* simple-auth.ts lines 65-85: isAuthenticated()
checkAuth == cachedUser /\ HasToken

\* Auth.tsx lines 23-24: if (currentUser), the user of getCurrentUser()
CachedUserCounts == cachedUser

\* the session of the cached user runs out
SessionExpires ==
    /\ session = "valid"
    /\ session' = "expired"
    /\ UNCHANGED <<currentPage, isLogin, cachedUser, appLoading,
                   isAuthenticated, user, checkPending, infoPending,
                   effectPending, loginPending, pcLogout, loggedOut>>
    /\ NotAuth

\* App.tsx lines 23-33 and 46-54: checkAuthStatus once checkAuth() has
\* answered or the 3 s timeout has won the race.  Authenticated, it goes on
\* to await getUserInfo() (line 36), whose getAuthToken() waits for the
\* getSession callback (simple-auth.ts lines 190, 45); otherwise it ends in
\* the finally of line 52
checkAuthStatus(timedOut) ==
    /\ checkPending
    /\ checkPending' = FALSE
    /\ isAuthenticated' = (~timedOut /\ checkAuth)
    /\ IF isAuthenticated'
       THEN /\ infoPending' = "getSession"
            /\ UNCHANGED appLoading
       ELSE /\ infoPending' = "none"
            /\ appLoading' = FALSE
    /\ effectPending' = ~isAuthenticated'
    /\ isLogin' = TRUE
    /\ UNCHANGED <<currentPage, cachedUser, session, user, loginPending,
                   pcLogout, loggedOut>>
    /\ NotAuth

\* simple-auth.ts lines 45-57 and 190-200: Cognito answers getSession; with
\* a token getUserInfo asks for the attributes (line 201), without one it
\* returns null and checkAuthStatus ends (App.tsx line 52)
UserInfoGotSession ==
    /\ infoPending = "getSession"
    /\ IF HasToken
       THEN /\ infoPending' = "getUserAttributes"
            /\ UNCHANGED appLoading
       ELSE /\ infoPending' = "none"
            /\ appLoading' = FALSE
    /\ UNCHANGED <<currentPage, isLogin, cachedUser, session, isAuthenticated,
                   user, checkPending, effectPending, loginPending, pcLogout,
                   loggedOut>>
    /\ NotAuth

\* simple-auth.ts lines 201-229: Cognito answers getUserAttributes, with the
\* attributes or an error; App.tsx lines 37-44 and 52
UserInfoGotAttributes ==
    /\ infoPending = "getUserAttributes"
    /\ infoPending' = "none"
    /\ appLoading' = FALSE
    /\ UNCHANGED <<currentPage, isLogin, cachedUser, session, isAuthenticated,
                   user, checkPending, effectPending, loginPending, pcLogout,
                   loggedOut>>
    /\ NotAuth

\* Auth.tsx lines 21-29: the effect of Auth after it is mounted;
\* onAuthStateChange is App.handleAuthStateChange (App.tsx lines 56-58)
AuthEffect ==
    /\ ShowsAuth
    /\ effectPending
    /\ effectPending' = FALSE
    /\ IF CachedUserCounts
       THEN /\ isAuthenticated' = TRUE
            /\ user' = "user"
       ELSE UNCHANGED <<isAuthenticated, user>>
    /\ UNCHANGED <<currentPage, isLogin, cachedUser, session, appLoading,
                   checkPending, infoPending, loginPending, pcLogout,
                   loggedOut>>
    /\ NotAuth

\* Auth.tsx lines 31-38, 50-52: the login form is submitted
SubmitLogin ==
    /\ ShowsAuth
    /\ isLogin
    /\ ~loginPending
    /\ loginPending' = TRUE
    /\ UNCHANGED <<currentPage, isLogin, cachedUser, session, appLoading,
                   isAuthenticated, user, checkPending, infoPending,
                   effectPending, pcLogout, loggedOut>>
    /\ NotAuth

\* simple-auth.ts lines 250-254, Auth.tsx lines 53-55: Cognito accepts the
\* credentials and stores user and session
LoginSucceeds ==
    /\ loginPending
    /\ loginPending' = FALSE
    /\ cachedUser' = TRUE
    /\ session' = "valid"
    /\ isAuthenticated' = TRUE
    /\ user' = "user"
    /\ effectPending' = FALSE
    /\ loggedOut' = FALSE
    /\ UNCHANGED <<currentPage, isLogin, appLoading, checkPending, infoPending,
                   pcLogout>>
    /\ NotAuth

\* simple-auth.ts lines 255-258, Auth.tsx lines 42-44: Cognito rejects them
LoginFails ==
    /\ loginPending
    /\ loginPending' = FALSE
    /\ UNCHANGED <<currentPage, isLogin, cachedUser, session, appLoading,
                   isAuthenticated, user, checkPending, infoPending,
                   effectPending, pcLogout, loggedOut>>
    /\ NotAuth

\* App.tsx lines 149-166: a navigation button, setCurrentPage
Navigate(page) ==
    /\ ShowsMain
    /\ page \in {"qa", "upload", "repo"}
    /\ currentPage' = page
    /\ UNCHANGED <<cachedUser, session, appLoading, isAuthenticated, user,
                   isLogin, checkPending, infoPending, effectPending,
                   loginPending, pcLogout, loggedOut>>
    /\ NotAuth

\* Auth.tsx: the switch between the login form and the register form
ToggleLogin ==
    /\ ShowsAuth
    /\ ~loginPending
    /\ isLogin' = ~isLogin
    /\ UNCHANGED <<cachedUser, session, appLoading, isAuthenticated, user,
                   currentPage, checkPending, infoPending, effectPending,
                   loginPending, pcLogout, loggedOut>>
    /\ NotAuth

\* Auth.tsx lines 61-66: handleRegister once registerUser() has succeeded;
\* the new account has no session yet
Registered ==
    /\ ShowsAuth
    /\ ~isLogin
    /\ isLogin' = TRUE
    /\ UNCHANGED <<cachedUser, session, appLoading, isAuthenticated, user,
                   currentPage, checkPending, infoPending, effectPending,
                   loginPending, pcLogout, loggedOut>>
    /\ NotAuth

\* App.tsx lines 77-90: handleLogout; logout() runs to its first await
\* (simple-auth.ts line 94) and Auth is rendered in place of the main page
handleLogout ==
    /\ ShowsMain
    /\ pcLogout = "none"
    /\ isAuthenticated' = FALSE
    /\ user' = "null"
    /\ pcLogout' = "l94"
    /\ currentPage' = "qa"
    /\ isLogin' = TRUE
    /\ effectPending' = TRUE
    /\ loggedOut' = TRUE
    /\ UNCHANGED <<cachedUser, session, appLoading, checkPending, infoPending,
                   loginPending>>
    /\ NotAuth

\* simple-auth.ts lines 94-103: the token arrives; with one, the backend
\* logout is fetched and awaited
LogoutGotToken ==
    /\ pcLogout = "l94"
    /\ pcLogout' = IF HasToken THEN "l103" ELSE "l123"
    /\ UNCHANGED <<currentPage, isLogin, cachedUser, session, appLoading,
                   isAuthenticated, user, checkPending, infoPending,
                   effectPending, loginPending, loggedOut>>
    /\ NotAuth

\* simple-auth.ts lines 103-119: the fetch answers or fails
LogoutFetched ==
    /\ pcLogout = "l103"
    /\ pcLogout' = "l123"
    /\ UNCHANGED <<currentPage, isLogin, cachedUser, session, appLoading,
                   isAuthenticated, user, checkPending, infoPending,
                   effectPending, loginPending, loggedOut>>
    /\ NotAuth

\* simple-auth.ts lines 123-140: safeClearAuth, signOut, and the reload of
\* the page, which mounts App anew
LogoutClearsAndReloads ==
    /\ pcLogout = "l123"
    /\ cachedUser' = FALSE
    /\ session' = "none"
    /\ appLoading' = TRUE
    /\ isAuthenticated' = FALSE
    /\ user' = "null"
    /\ currentPage' = "qa"
    /\ isLogin' = TRUE
    /\ checkPending' = TRUE
    /\ infoPending' = "none"
    /\ effectPending' = FALSE
    /\ loginPending' = FALSE
    /\ pcLogout' = "none"
    /\ UNCHANGED loggedOut
    /\ NotAuth

NextAuth ==
    \/ SessionExpires
    \/ \E timedOut \in BOOLEAN : checkAuthStatus(timedOut)
    \/ UserInfoGotSession
    \/ UserInfoGotAttributes
    \/ AuthEffect
    \/ SubmitLogin
    \/ LoginSucceeds
    \/ LoginFails
    \/ \E page \in {"qa", "upload", "repo"} : Navigate(page)
    \/ ToggleLogin
    \/ Registered
    \/ handleLogout
    \/ LogoutGotToken
    \/ LogoutFetched
    \/ LogoutClearsAndReloads

\* the page is opened in a browser that holds no user, a user with a valid
\* session, or a user whose session has expired
InitA ==
    /\ \E stored \in {<<FALSE, "none">>, <<TRUE, "valid">>, <<TRUE, "expired">>} :
          /\ cachedUser = stored[1]
          /\ session = stored[2]
    /\ loggedOut = FALSE
    /\ AppMounted
    /\ InitBreaker /\ NoVerification /\ InitPipeline /\ InitForm /\ InitFilter
    /\ InitPages

SpecAuth == InitA /\ [][NextAuth]_vars

\* App.tsx lines 26-29: the timer of setTimeout fires after 3 s, so the race
\* of line 29 is always settled; nothing makes Cognito call back
AuthFairness == WF_vars(\E timedOut \in BOOLEAN : checkAuthStatus(timedOut))

SpecAuthLive == InitA /\ [][NextAuth]_vars /\ AuthFairness

(***************************************************************************)
(* Uploading a book: BookUpload (part_001)                                 *)
(***************************************************************************)
NotUpload ==
    UNCHANGED <<breakerVars, verifyVars, pipelineVars, formVars, filterVars, authVars,
                storageVars, booksVars, requestVars, confirmVars>>

\* the sizes around the limit of line 32, and what reading the file gives:
\* text btoa accepts ("latin1"), text with a character above 0xFF, for which
\* btoa throws ("wide"), or a read error ("unreadable")
FileSizes == {0, 1, MaxUploadBytes - 1, MaxUploadBytes, MaxUploadBytes + 1}
FileTexts == {"latin1", "wide", "unreadable"}
Files == [size : FileSizes, text : FileTexts]

\* line 115 and line 131: the file input and the button are disabled
FileInputDisabled == isLoading
UploadButtonDisabled == file = NoFile \/ isLoading

\* lines 15-22: a file is chosen in the file input
handleFileChange(selectedFile) ==
    /\ ~FileInputDisabled
    /\ file' = selectedFile
    /\ uploadError' = ""
    /\ success' = ""
    /\ UNCHANGED <<isLoading, reader, uploaded>>
    /\ NotUpload

\* lines 24-39 and 80-87 (part_001 lines 24-93): the button is clicked; up to
\* reader.readAsText(file)
UploadSubmit ==
    /\ ~UploadButtonDisabled
    /\ IF file = NoFile
       THEN /\ uploadError' = "Please select a file"
            /\ UNCHANGED <<isLoading, success, reader>>
       ELSE IF file.size > MaxUploadBytes
       THEN /\ uploadError' = "File size must be less than 50MB"
            /\ UNCHANGED <<isLoading, success, reader>>
       ELSE /\ isLoading' = TRUE
            /\ uploadError' = ""
            /\ success' = ""
            /\ reader' = "reading"
    /\ UNCHANGED <<file, uploaded>>
    /\ NotUpload

\* lines 43-56 and 71-76: reader.onload; btoa, then the call of uploadBook,
\* or the catch and the finally when btoa throws
ReaderLoads ==
    /\ reader = "reading"
    /\ file.text # "unreadable"
    /\ IF file.text = "wide"
       THEN /\ uploadError' = "Failed to upload book"
            /\ isLoading' = FALSE
            /\ reader' = "idle"
            /\ UNCHANGED uploaded
       ELSE /\ uploaded' = uploaded \cup {file}
            /\ reader' = "uploading"
            /\ UNCHANGED <<uploadError, isLoading>>
    /\ UNCHANGED <<file, success>>
    /\ NotUpload

\* lines 79-82: reader.onerror
ReaderFails ==
    /\ reader = "reading"
    /\ file.text = "unreadable"
    /\ uploadError' = "Error reading file"
    /\ isLoading' = FALSE
    /\ reader' = "idle"
    /\ UNCHANGED <<file, success, uploaded>>
    /\ NotUpload

\* lines 57-69 and 74-76: uploadBook resolved
UploadResolves ==
    /\ reader = "uploading"
    /\ success' = "Book uploaded successfully!"
    /\ file' = NoFile
    /\ isLoading' = FALSE
    /\ reader' = "idle"
    /\ UNCHANGED <<uploadError, uploaded>>
    /\ NotUpload

\* lines 71-76: uploadBook rejected
UploadRejects ==
    /\ reader = "uploading"
    /\ uploadError' = "Failed to upload book"
    /\ isLoading' = FALSE
    /\ reader' = "idle"
    /\ UNCHANGED <<file, success, uploaded>>
    /\ NotUpload

NextUpload ==
    \/ \E selectedFile \in Files : handleFileChange(selectedFile)
    \/ UploadSubmit
    \/ ReaderLoads
    \/ ReaderFails
    \/ UploadResolves
    \/ UploadRejects

InitU ==
    /\ InitUpload
    /\ InitBreaker /\ NoVerification /\ InitPipeline /\ InitForm /\ InitFilter /\ InitAuth
    /\ InitStorage /\ InitBooks /\ InitRequest /\ InitConfirm

SpecUpload == InitU /\ [][NextUpload]_vars

(***************************************************************************)
(* Clearing the browser's storage: safeClearAuth (utils/simple-auth.ts     *)
(* lines 310-362) and the loops of the earlier logout (part_008 lines      *)
(* 95-125).  A key name is the sequence of its characters, a storage the   *)
(* sequence of its keys in the order key(i) gives them.                    *)
(***************************************************************************)
NotStorage ==
    UNCHANGED <<breakerVars, verifyVars, pipelineVars, formVars, filterVars, authVars,
                uploadVars, booksVars, requestVars, confirmVars>>

\* simple-auth.ts lines 315-323, part_008 lines 96-104
storageKeys ==
    << <<"c", "o", "g", "n", "i", "t", "o", "-", "t", "o", "k", "e", "n">>,
       <<"a", "w", "s", ".", "c", "o", "g", "n", "i", "t", "o", ".", "i", "d",
       "e", "n", "t", "i", "t", "y", "-", "i", "d">>,
       <<"a", "p", "i", "_", "k", "e", "y">>,
       <<"u", "s", "e", "r", "_", "i", "n", "f", "o">>,
       <<"a", "u", "t", "h", "_", "t", "o", "k", "e", "n">>,
       <<"c", "o", "g", "n", "i", "t", "o", "U", "s", "e", "r", "P", "o", "o",
       "l">>,
       <<"c", "o", "g", "n", "i", "t", "o", "U", "s", "e", "r">> >>

\* the keys a page may have stored: auth_token, api_key, oauth, aws.id,
\* theme and Auth (includes() tells capitals apart)
StoredKeys ==
    { <<"a", "u", "t", "h", "_", "t", "o", "k", "e", "n">>,
      <<"a", "p", "i", "_", "k", "e", "y">>,
      <<"o", "a", "u", "t", "h">>,
      <<"a", "w", "s", ".", "i", "d">>,
      <<"t", "h", "e", "m", "e">>,
      <<"A", "u", "t", "h">> }

\* the orders in which at most n of the keys can be stored
StoredOrders(n) ==
    {ks \in SeqsUpTo(StoredKeys, n) :
        \A i, j \in 1..Len(ks) : i # j => ks[i] # ks[j]}

\* the name of the key api-client.ts line 8 reads
api_key == <<"a", "p", "i", "_", "k", "e", "y">>

\* what getItem('api_key') can give for a localStorage: null without the
\* key, else the value stored under it, which may be the empty string
ApiKeyValues(storage) ==
    IF \E i \in 1..Len(storage) : storage[i] = api_key
    THEN {"", "key-1"}
    ELSE {"null"}

\* Storage.removeItem(key): the other keys keep their order
removeItem(storage, key) == SelectSeq(storage, LAMBDA k : k # key)

\* lines 325-332 (part_008 lines 106-109): storageKeys.forEach(removeItem)
RECURSIVE RemoveEach(_, _)
RemoveEach(storage, keys) ==
    IF keys = <<>> THEN storage
    ELSE RemoveEach(removeItem(storage, Head(keys)), Tail(keys))

\* lines 338 and 350: key.includes('cognito') || key.includes('aws') ||
\* key.includes('auth')
CognitoRelated(key) ==
    \/ Contains(key, <<"c", "o", "g", "n", "i", "t", "o">>)
    \/ Contains(key, <<"a", "w", "s">>)
    \/ Contains(key, <<"a", "u", "t", "h">>)

\* part_008 lines 112-117 and 120-125: for (i = 0; i < length; i++), the
\* length read again at every turn; i counts from 0, key(i) is storage[i + 1]
RECURSIVE ClearForward(_, _)
ClearForward(storage, i) ==
    IF ~(i < Len(storage)) THEN storage
    ELSE LET key == storage[i + 1]
         IN  ClearForward(IF CognitoRelated(key) THEN removeItem(storage, key)
                          ELSE storage,
                          i + 1)

\* simple-auth.ts lines 335-344 and 347-356: for (i = length - 1; i >= 0; i--)
RECURSIVE ClearBackward(_, _)
ClearBackward(storage, i) ==
    IF ~(i >= 0) THEN storage
    ELSE LET key == storage[i + 1]
         IN  ClearBackward(IF CognitoRelated(key) THEN removeItem(storage, key)
                           ELSE storage,
                           i - 1)

\* the loop run upwards, as the earlier logout ran it
ClearRelatedAscending(storage) == ClearForward(storage, 0)

\* simple-auth.ts lines 335-344: the loop over one storage
ClearRelated(storage) == ClearBackward(storage, Len(storage) - 1)

\* simple-auth.ts lines 310-362
safeClearAuth ==
    /\ cleared = "none"
    /\ localStorage' = ClearRelated(RemoveEach(localStorage, storageKeys))
    /\ sessionStorage' = ClearRelated(RemoveEach(sessionStorage, storageKeys))
    /\ cleared' = "safeClearAuth"
    /\ storedApiKey' = "null"
    /\ UNCHANGED storedBefore
    /\ NotStorage

\* part_008 lines 95-125: steps 4 to 6 of the earlier logout
LogoutClearsStorage ==
    /\ cleared = "none"
    /\ localStorage' = ClearForward(RemoveEach(localStorage, storageKeys), 0)
    /\ sessionStorage' = ClearForward(RemoveEach(sessionStorage, storageKeys), 0)
    /\ cleared' = "logout"
    /\ storedApiKey' = "null"
    /\ UNCHANGED storedBefore
    /\ NotStorage

NextStorage == safeClearAuth \/ LogoutClearsStorage

\* the storages hold any of the keys, in any order
InitS ==
    /\ localStorage \in StoredOrders(MaxStored)
    /\ sessionStorage \in StoredOrders(MaxStored)
    /\ cleared = "none"
    /\ storedBefore = [local |-> localStorage, session |-> sessionStorage]
    /\ storedApiKey \in ApiKeyValues(localStorage)
    /\ InitBreaker /\ NoVerification /\ InitPipeline /\ InitForm /\ InitFilter /\ InitAuth
    /\ InitUpload /\ InitBooks /\ InitRequest /\ InitConfirm

SpecStorage == InitS /\ [][NextStorage]_vars

(***************************************************************************)
(* The book list: useBooks (part_005) and BookSelector                     *)
(* (components/BookSelector.tsx), on the Q&A page beside the question form *)
(***************************************************************************)
NotBooks ==
    UNCHANGED <<breakerVars, verifyVars, pipelineVars, filterVars, authVars,
                uploadVars, storageVars, requestVars, confirmVars>>

\* the lists of titles the API can answer with
BookLists == SeqsUpTo({"book", "other"}, MaxBooks)

\* part_005 lines 95-97: fallbackBooks
fallbackBooks == <<"rhia">>

\* what listBooks() resolves to (api-client.ts line 75, response.json()): an
\* object with books, an object with a body string (JSON with books, JSON
\* without, or no JSON), an array, or anything else
ApiResponses ==
    [shape : {"books", "body", "array"}, books : BookLists]
        \cup {[shape |-> "bodyWithoutBooks"], [shape |-> "bodyNotJson"],
              [shape |-> "other"]}

\* part_005 lines 37-58: booksData || []
BooksOfApiResponse(resp) ==
    IF resp.shape \in {"books", "body", "array"} THEN resp.books ELSE <<>>

\* what the direct fetch gives once response.ok (part_005 lines 76-89): the
\* object itself or wrapped in body, with books or without
FetchedData ==
    [shape : {"direct", "body"}, books : BookLists]
        \cup {[shape |-> "directWithoutBooks"], [shape |-> "bodyWithoutBooks"]}

\* part_005 lines 80-89: booksData.books || []
BooksOfFetchedData(data) ==
    IF data.shape \in {"direct", "body"} THEN data.books ELSE <<>>

\* the messages of the errors the direct fetch ends with: not response.ok
\* (line 73), fetch rejected, JSON.parse of line 83 threw
FetchErrors == {"HTTP error! status: 500", "Failed to fetch", "Unexpected token"}

\* BookSelector.tsx lines 12-52: neither "Loading books..." nor the error box
SelectShown == ~booksLoading /\ booksError = "null"

\* BookSelector.tsx lines 59-70: the options of the select after
\* "Choose a book...", none when the select is not rendered
Offered == IF SelectShown THEN books ELSE <<>>

\* part_005 lines 31-59 and 101-103: listBooks() resolved
ApiClientAnswers(resp) ==
    /\ fetchPc = "apiClient"
    /\ books' = BooksOfApiResponse(resp)
    /\ booksLoading' = FALSE
    /\ fetchPc' = "idle"
    /\ lastFetch' = "apiClient"
    /\ UNCHANGED booksError
    /\ UNCHANGED formVars
    /\ NotBooks

\* part_005 lines 60-70: listBooks() rejected (or the import did); the direct
\* fetch is sent
ApiClientFails ==
    /\ fetchPc = "apiClient"
    /\ fetchPc' = "directFetch"
    /\ UNCHANGED <<books, booksLoading, booksError, lastFetch>>
    /\ UNCHANGED formVars
    /\ NotBooks

\* part_005 lines 72-89 and 101-103: the direct fetch answered with
\* response.ok and data that parses
DirectFetchAnswers(data) ==
    /\ fetchPc = "directFetch"
    /\ books' = BooksOfFetchedData(data)
    /\ booksLoading' = FALSE
    /\ fetchPc' = "idle"
    /\ lastFetch' = "directFetch"
    /\ UNCHANGED booksError
    /\ UNCHANGED formVars
    /\ NotBooks

\* part_005 lines 72-74 and 91-103: the direct fetch failed as well
DirectFetchFails(message) ==
    /\ fetchPc = "directFetch"
    /\ books' = fallbackBooks
    /\ booksError' = message
    /\ booksLoading' = FALSE
    /\ fetchPc' = "idle"
    /\ lastFetch' = "fallback"
    /\ UNCHANGED formVars
    /\ NotBooks

\* BookSelector.tsx lines 35-48 and part_005 lines 23-33, 106-108: Retry is
\* clicked in the error box; fetchBooks up to the await of listBooks()
refreshBooks ==
    /\ ~booksLoading
    /\ booksError # "null"
    /\ booksLoading' = TRUE
    /\ booksError' = "null"
    /\ fetchPc' = "apiClient"
    /\ UNCHANGED <<books, lastFetch>>
    /\ UNCHANGED formVars
    /\ NotBooks

\* BookSelector.tsx line 62 and part_004 lines 18-22: an option of the select
\* is chosen and BookQA.handleBookSelect takes its value
SelectOption(bookTitle) ==
    /\ SelectShown
    /\ \/ bookTitle = ""
       \/ \E i \in 1..Len(Offered) : Offered[i] = bookTitle
    /\ selectedBook' = bookTitle
    /\ qaAnswer' = "null"
    /\ error' = ""
    /\ UNCHANGED <<question, loading, answerFor, sent, served, replied, submits,
                   submitted>>
    /\ UNCHANGED booksVars
    /\ NotBooks

NextBooks ==
    \/ \E resp \in ApiResponses : ApiClientAnswers(resp)
    \/ ApiClientFails
    \/ \E data \in FetchedData : DirectFetchAnswers(data)
    \/ \E message \in FetchErrors : DirectFetchFails(message)
    \/ refreshBooks
    \/ \E bookTitle \in {"", "book", "other", "rhia"} : SelectOption(bookTitle)
    \/ \E text \in QuestionTexts : ChangeQuestion(text)

InitB ==
    /\ InitBooks
    /\ InitBreaker /\ NoVerification /\ InitPipeline /\ InitForm /\ InitFilter /\ InitAuth
    /\ InitUpload /\ InitStorage /\ InitRequest /\ InitConfirm

SpecBooks == InitB /\ [][NextBooks]_vars

(***************************************************************************)
(* The API client: getSecurityHeaders and apiRequest (utils/api-client.ts) *)
(***************************************************************************)
NotRequest ==
    UNCHANGED <<breakerVars, verifyVars, pipelineVars, formVars, filterVars, authVars,
                uploadVars, storageVars, booksVars, confirmVars>>

\* api-client.ts lines 79-93: the endpoints of the API functions
Endpoints == {"/query", "/books", "/upload", "/repo"}

\* api-client.ts lines 5-9: getApiKey, localStorage.getItem('api_key') || ''
getApiKey == IF storedApiKey = "null" THEN "" ELSE storedApiKey

\* api-client.ts lines 12-21: the wrapper of getAuthToken,
\* await getAuthToken() || ''
getAuthToken == IF HasToken THEN "jwt" ELSE ""

\* api-client.ts lines 25-27; a header is the pair of its name and value
baseHeaders == {<<"Content-Type", "application/json">>}

\* the key is sent and the Cognito token beside it
ApiKeyAndTokenHeaders(apiKey) ==
    baseHeaders \cup {<<"x-api-key", apiKey>>, <<"Authorization", <<"Bearer", "jwt">>>>}

\* api-client.ts lines 31-36: the headers returned for an API key
ApiKeyHeaders(apiKey) == baseHeaders \cup {<<"x-api-key", apiKey>>}

\* api-client.ts lines 39-48: the headers returned once the token is there
TokenHeaders(token) ==
    IF token # "" THEN baseHeaders \cup {<<"Authorization", <<"Bearer", token>>>>}
    ELSE baseHeaders

\* api-client.ts line 68: fetch(API_BASE_URL + endpoint, config)
fetch(endpoint, headers) ==
    requests' = Append(requests, [endpoint |-> endpoint, headers |-> headers])

\* api-client.ts lines 52-68 and 24-39: apiRequest; with an API key the
\* headers are there at once and the request is sent, without one
\* getSecurityHeaders awaits the Cognito token
apiRequest(endpoint) ==
    /\ reqPc = "idle"
    /\ Len(requests) < MaxRequests
    /\ IF getApiKey # ""
       THEN /\ fetch(endpoint, ApiKeyHeaders(getApiKey))
            /\ UNCHANGED reqPc
       ELSE /\ reqPc' = endpoint
            /\ UNCHANGED requests
    /\ NotRequest

\* api-client.ts lines 39-48 and 57-68: the token, or none, has arrived and
\* the request is sent
TokenArrives ==
    /\ reqPc # "idle"
    /\ fetch(reqPc, TokenHeaders(getAuthToken))
    /\ reqPc' = "idle"
    /\ NotRequest

NextRequest ==
    \/ \E endpoint \in Endpoints : apiRequest(endpoint)
    \/ TokenArrives
    \/ SessionExpires
    \/ safeClearAuth

\* the browser holds an API key or none, and a Cognito user or none
InitR ==
    /\ localStorage \in {<<>>, <<api_key>>}
    /\ storedApiKey \in ApiKeyValues(localStorage)
    /\ sessionStorage = <<>>
    /\ cleared = "none"
    /\ storedBefore = [local |-> localStorage, session |-> sessionStorage]
    /\ \E stored \in {<<FALSE, "none">>, <<TRUE, "valid">>, <<TRUE, "expired">>} :
          /\ cachedUser = stored[1]
          /\ session = stored[2]
    /\ loggedOut = FALSE
    /\ AppMounted
    /\ InitRequest
    /\ InitBreaker /\ NoVerification /\ InitPipeline /\ InitForm /\ InitFilter
    /\ InitUpload /\ InitBooks /\ InitConfirm

SpecRequest == InitR /\ [][NextRequest]_vars

(***************************************************************************)
(* Auth with email verification (components/AnswerDisplay.tsx lines        *)
(* 138-431) and confirmRegistration (utils/simple-auth.ts lines 290-307)   *)
(***************************************************************************)
NotConfirm ==
    UNCHANGED <<breakerVars, verifyVars, pipelineVars, formVars, filterVars,
                uploadVars, storageVars, booksVars, requestVars>>

\* the state of App and of Cognito that Auth leaves alone
AppUntouched ==
    UNCHANGED <<cachedUser, session, appLoading, isAuthenticated, user, currentPage,
                checkPending, infoPending, effectPending, loginPending, pcLogout,
                loggedOut>>

\* what can be typed into the code field: blanks and digits
CodeTexts == SeqsUpTo({" ", "7"}, MaxCodeLen)

\* the messages of the errors Cognito answers with
AuthErrors == {"Incorrect username or password.", "User already exists"}

\* lines 304 and 357: Auth shows the verification form
ShowsVerification == ShowsAuth /\ isVerifying

\* lines 357-428: Auth shows the login or the register form
ShowsCredentials == ShowsAuth /\ ~isVerifying

\* line 331: disabled={loading || !verificationCode.trim()}
VerifyButtonDisabled == authLoading \/ Trim(verificationCode) = <<>>

\* lines 415-423: the switch between the login and the register form
ToggleForm ==
    /\ ShowsCredentials
    /\ isLogin' = ~isLogin
    /\ authError' = ""
    /\ UNCHANGED <<isVerifying, verificationCode, authLoading, authPc, lastConfirm>>
    /\ AppUntouched
    /\ NotConfirm

\* lines 198-208, 217-219, 228-230: handleSubmit of the login or register
\* form, up to the await of loginUser or registerUser
AuthSubmit ==
    /\ ShowsCredentials
    /\ ~authLoading
    /\ authLoading' = TRUE
    /\ authError' = ""
    /\ authPc' = IF isLogin THEN "loginUser" ELSE "registerUser"
    /\ UNCHANGED <<isLogin, isVerifying, verificationCode, lastConfirm>>
    /\ AppUntouched
    /\ NotConfirm

\* lines 219-222 and 212-214, simple-auth.ts lines 250-254: Cognito accepts
\* the credentials; onAuthStateChange is App.handleAuthStateChange
AuthLoginAccepted ==
    /\ authPc = "loginUser"
    /\ authPc' = "idle"
    /\ authLoading' = FALSE
    /\ cachedUser' = TRUE
    /\ session' = "valid"
    /\ isAuthenticated' = TRUE
    /\ user' = "user"
    /\ loggedOut' = FALSE
    /\ UNCHANGED <<isLogin, appLoading, currentPage, checkPending, infoPending,
                   effectPending, loginPending, pcLogout>>
    /\ UNCHANGED <<isVerifying, verificationCode, authError, lastConfirm>>
    /\ NotConfirm

\* lines 209-214 (223-225, 234-236): loginUser or registerUser rejected; the
\* handler rethrows and handleSubmit shows the message
AuthRejected(message) ==
    /\ authPc \in {"loginUser", "registerUser"}
    /\ authPc' = "idle"
    /\ authError' = message
    /\ authLoading' = FALSE
    /\ UNCHANGED <<isLogin, isVerifying, verificationCode, lastConfirm>>
    /\ AppUntouched
    /\ NotConfirm

\* lines 230-233 and 212-214: registerUser resolved; the verification form
\* is shown
Registering ==
    /\ authPc = "registerUser"
    /\ authPc' = "idle"
    /\ authError' = ""
    /\ isVerifying' = TRUE
    /\ authLoading' = FALSE
    /\ UNCHANGED <<isLogin, verificationCode, lastConfirm>>
    /\ AppUntouched
    /\ NotConfirm

\* lines 315-323: typing into the code field
ChangeCode(text) ==
    /\ ShowsVerification
    /\ verificationCode' = text
    /\ UNCHANGED <<isLogin, isVerifying, authError, authLoading, authPc, lastConfirm>>
    /\ AppUntouched
    /\ NotConfirm

\* lines 312 and 239-243: the verification form is submitted;
\* handleVerification up to the await of confirmRegistration
handleVerification ==
    /\ ShowsVerification
    /\ ~VerifyButtonDisabled
    /\ authPc = "idle"
    /\ authLoading' = TRUE
    /\ authError' = ""
    /\ authPc' = "confirmRegistration"
    /\ lastConfirm' = "none"
    /\ UNCHANGED <<isLogin, isVerifying, verificationCode>>
    /\ AppUntouched
    /\ NotConfirm

\* lines 244-247 and 250-252, simple-auth.ts lines 301-303: the code is
\* accepted
ConfirmResolves ==
    /\ authPc = "confirmRegistration"
    /\ authPc' = "idle"
    /\ authError' = ""
    /\ isVerifying' = FALSE
    /\ isLogin' = TRUE
    /\ authLoading' = FALSE
    /\ lastConfirm' = "confirmed"
    /\ UNCHANGED verificationCode
    /\ AppUntouched
    /\ NotConfirm

\* lines 248-252, simple-auth.ts lines 298-300: the code is rejected; the
\* catch rethrows, the finally resets loading, and the form's onSubmit
\* (line 312) neither awaits nor catches the rejected promise
ConfirmRejects ==
    /\ authPc = "confirmRegistration"
    /\ authPc' = "idle"
    /\ authLoading' = FALSE
    /\ lastConfirm' = "failed"
    /\ UNCHANGED <<isLogin, isVerifying, verificationCode, authError>>
    /\ AppUntouched
    /\ NotConfirm

\* lines 339-349: Back to Login
BackToLogin ==
    /\ ShowsVerification
    /\ isVerifying' = FALSE
    /\ isLogin' = TRUE
    /\ authError' = ""
    /\ verificationCode' = <<>>
    /\ UNCHANGED <<authLoading, authPc, lastConfirm>>
    /\ AppUntouched
    /\ NotConfirm

NextConfirm ==
    \/ ToggleForm
    \/ AuthSubmit
    \/ AuthLoginAccepted
    \/ \E message \in AuthErrors : AuthRejected(message)
    \/ Registering
    \/ \E text \in CodeTexts : ChangeCode(text)
    \/ handleVerification
    \/ ConfirmResolves
    \/ ConfirmRejects
    \/ BackToLogin

\* App has finished its check in a browser without a Cognito user (App.tsx
\* lines 46-54) and shows Auth, whose effect found no user (lines 184-189)
InitC ==
    /\ cachedUser = FALSE
    /\ session = "none"
    /\ loggedOut = FALSE
    /\ appLoading = FALSE
    /\ isAuthenticated = FALSE
    /\ user = "null"
    /\ currentPage = "qa"
    /\ isLogin = TRUE
    /\ checkPending = FALSE
    /\ infoPending = "none"
    /\ effectPending = FALSE
    /\ loginPending = FALSE
    /\ pcLogout = "none"
    /\ InitConfirm
    /\ InitBreaker /\ NoVerification /\ InitPipeline /\ InitForm /\ InitFilter
    /\ InitUpload /\ InitStorage /\ InitBooks /\ InitRequest

SpecConfirm == InitC /\ [][NextConfirm]_vars

(***************************************************************************)
(* Properties of the circuit breaker                                       *)
(***************************************************************************)
AllIdle == \A c \in Callers : pc[c] = "idle"

\* C1: once failure_threshold calls in a row have failed, with no successful
\* call between them, the breaker is OPEN (from any count the failures
\* started at, failure_count 0 in CLOSED included).
C1_OpenAfterThresholdFailures ==
    (AllIdle /\ consecFails >= failure_threshold) => state = "OPEN"

\* three failed calls from failure_count 0 have opened the breaker
C1_Witness ==
    /\ AllIdle
    /\ consecFails = failure_threshold
    /\ failure_count = failure_threshold
    /\ state = "OPEN"

\* C2: a caller that meets the breaker OPEN before recovery_timeout has passed
\* since it opened goes to the raise of line 252 and never to the call of the
\* wrapped function.
C2_OpenRejectsWithoutCall ==
    [][\A c \in Callers :
          ( /\ state = "OPEN"
            /\ now - openedAt <= recovery_timeout
            /\ pc[c] \in {"idle", "l249"}
            /\ pc'[c] # pc[c] )
          => ( /\ pc'[c] # "l255"
               /\ pc[c] = "l249" => pc'[c] = "l252" )]_vars

\* a caller is rejected exactly recovery_timeout after the breaker opened
C2_Witness ==
    \E c \in Callers :
        /\ pc[c] = "l252"
        /\ state = "OPEN"
        /\ now - openedAt = recovery_timeout

\* C3: a call through the breaker-wrapped function never ends by an exception:
\* no caller reaches a raise statement of the wrapper (lines 252 and 267).
C3_NeverRaises ==
    \A c \in Callers : pc[c] \notin {"l252", "l267"}

\* C4: while the trial call is in flight and the state is HALF_OPEN, another
\* caller that enters the wrapper does not get to call the wrapped function.
C4_OneTrialCall ==
    [][\A c, d \in Callers :
          ( /\ c # d
            /\ trial[c] /\ pc[c] = "l255"
            /\ state = "HALF_OPEN"
            /\ pc[d] = "idle" /\ pc'[d] # "idle" )
          => pc'[d] # "l255"]_vars

C6_TrialFailureReopens ==
    \A c \in Callers :
        /\ (trial[c] /\ pc[c] = "l267") =>
              (state = "OPEN" /\ last_failure_time = now /\ openedAt = now)
        /\ (trial[c] /\ pc[c] = "l255") => now - openedAt > recovery_timeout

\* a failed trial call is about to re-raise, later than the first opening
C6_Witness ==
    \E c \in Callers :
        /\ trial[c] /\ pc[c] = "l267"
        /\ state = "OPEN" /\ last_failure_time = now /\ now > recovery_timeout

\* C7: in every reachable state of the shared breaker, OPEN implies that
\* failure_count has reached failure_threshold.
C7_OpenImpliesThreshold ==
    state = "OPEN" => failure_count >= failure_threshold

\* C18: the breaker goes from CLOSED to OPEN only at the end of a run of
\* failure_threshold failed calls with no successful call among them: the
\* failures before the last successful call do not count.
C18_OnlyConsecutiveFailuresOpen ==
    [][(state = "CLOSED" /\ state' = "OPEN")
          => consecFails + 1 >= failure_threshold]_vars

\* C19: a call in which the model call failed, so that the wrapped function
\* came back with the handler's fallback value, has been counted by the
\* breaker when it returns: failure_count is at least 1 then.
C19_ModelFailureCounts ==
    [][\A c \in Callers :
          (pc[c] = "l259" /\ result[c] = "fallback" /\ pc'[c] = "idle")
              => failure_count' >= 1]_vars

\* C20: a caller that finds the breaker OPEN more than recovery_timeout after
\* it entered OPEN is let through to the wrapped function as the trial call,
\* whatever failures were reported since the breaker opened.
C20_OpenPeriodFromTransition ==
    [][\A c \in Callers :
          ( /\ pc[c] = "l249"
            /\ state = "OPEN"
            /\ now - openedAt > recovery_timeout
            /\ pc'[c] # pc[c] )
          => pc'[c] = "l255"]_vars

(***************************************************************************)
(* Properties of the verifier                                              *)
(***************************************************************************)
\* the claim units of an answer that have no word in them
NoClaims(resp) ==
    \A i \in 1..Len(Split(resp, <<".", " ">>)) :
        Words(Split(resp, <<".", " ">>)[i]) = <<>>

\* C8: for every answer text and every list of source chunks the score is a
\* fraction with a denominator above 0 and a value from 0 to 1, and an answer
\* with no claims gets score 0 and confidence low.
C8_ScoreInUnitInterval ==
    verification.done =>
        /\ verification.verification_score[2] > 0
        /\ verification.verification_score[1] >= 0
        /\ verification.verification_score[1] <= verification.verification_score[2]
        /\ NoClaims(response) =>
              /\ verification.verification_score[1] = 0
              /\ verification.confidence_level = "low"

\* the empty answer has been verified against a chunk: score 0, low
C8_Witness ==
    /\ verification.done
    /\ response = <<>>
    /\ source_chunks # <<>>
    /\ verification.verification_score = <<0, 1>>
    /\ verification.confidence_level = "low"

\* the label the specification gives a score
SpecifiedLevel(score) ==
    IF ScoreAtLeast(score, 8, 10) THEN "high"
    ELSE IF ScoreAtLeast(score, 5, 10) THEN "medium"
    ELSE "low"

\* C9: the confidence label is high exactly for a score of at least 0.8,
\* medium exactly for a score from 0.5 up to but not including 0.8, and low
\* exactly for a score below 0.5.
C9_LevelThresholds ==
    verification.done =>
        verification.confidence_level =
            SpecifiedLevel(verification.verification_score)

\* the level a disclaimer names
LevelNamed(disclaimer) ==
    IF disclaimer = Disclaimer("low") THEN "low"
    ELSE IF disclaimer = Disclaimer("medium") THEN "medium"
    ELSE IF disclaimer = Disclaimer("high") THEN "high"
    ELSE "none"

\* what add_confidence_disclaimer put after the answer text
Appended == SubSeq(disclaimed.text, Len(response) + 1, Len(disclaimed.text))

\* C21: for every answer text whose score is below 0.5, what
\* add_confidence_disclaimer returns starts with the whole answer text,
\* unchanged, and goes on with the low-confidence disclaimer and nothing else.
C21_LowConfidenceNotWithheld ==
    (disclaimed.done /\ ScoreBelow(verification.verification_score, 5, 10)) =>
        /\ Len(disclaimed.text) = Len(response) + Len(Disclaimer("low"))
        /\ SubSeq(disclaimed.text, 1, Len(response)) = response
        /\ Appended = Disclaimer("low")

\* an answer of two claims, neither verified, carries the low disclaimer
C21_Witness ==
    /\ disclaimed.done
    /\ verification.verification_score = <<0, 2>>
    /\ Len(response) >= 4
    /\ disclaimed.text = response \o Disclaimer("low")

\* C23: whatever the score, the confidence_level of verify_response_accuracy
\* is the level named in the disclaimer add_confidence_disclaimer appends
\* for that score.
C23_SameLevelInDisclaimer ==
    disclaimed.done => LevelNamed(Appended) = verification.confidence_level

(***************************************************************************)
(* Properties of the pipeline                                              *)
(***************************************************************************)
\* the states of a request that has its retrieval result
PastRetrieval ==
    {"RANKING", "NO_CONTEXT", "ASSEMBLING", "SYNTHESIZING", "FILTERING_OUTPUT",
     "VERIFYING", "RESPONDED"}

\* C10: a request whose retrieval returned zero chunks builds no prompt,
\* never has the model called, and is answered with the fixed
\* insufficient-information Answer (low, score 0, no citations).
C10_NoContextShortCircuit ==
    (pstate \in PastRetrieval /\ retrieved = <<>>) =>
        /\ pstate \in {"RANKING", "NO_CONTEXT", "RESPONDED"}
        /\ ~prompt.built
        /\ modelCalls = 0
        /\ pstate = "RESPONDED" =>
              /\ answer = InsufficientAnswer
              /\ answer.confidence = "low"
              /\ answer.verification_score[1] = 0
              /\ answer.citations = <<>>

\* a request with zero chunks has been answered
C10_Witness ==
    /\ pstate = "RESPONDED"
    /\ retrieved = <<>>
    /\ answer = InsufficientAnswer
    /\ modelCalls = 0
    /\ ~prompt.built

\* the arrows of the pipeline state machine
PipelineArrows ==
    { <<"RECEIVED", "EMBEDDING">>, <<"EMBEDDING", "RETRIEVING">>,
      <<"RETRIEVING", "RANKING">>, <<"RANKING", "NO_CONTEXT">>,
      <<"NO_CONTEXT", "RESPONDED">>, <<"RANKING", "ASSEMBLING">>,
      <<"ASSEMBLING", "SYNTHESIZING">>, <<"SYNTHESIZING", "FILTERING_OUTPUT">>,
      <<"FILTERING_OUTPUT", "VERIFYING">>, <<"VERIFYING", "RESPONDED">>,
      <<"EMBEDDING", "FAILED">>, <<"RETRIEVING", "FAILED">> }

\* C11: every step of a request moves its state along one arrow of RECEIVED,
\* EMBEDDING, RETRIEVING, RANKING, then NO_CONTEXT, RESPONDED or ASSEMBLING,
\* SYNTHESIZING, FILTERING_OUTPUT, VERIFYING, RESPONDED; FAILED is entered
\* from EMBEDDING or RETRIEVING only; nothing of the request changes once it
\* is RESPONDED or FAILED.
C11_PipelineOrder ==
    [][ /\ pipelineVars' # pipelineVars => <<pstate, pstate'>> \in PipelineArrows
        /\ pstate \in {"RESPONDED", "FAILED"} => pipelineVars' = pipelineVars
      ]_vars

\* a request has gone the long way to RESPONDED
C11_Witness ==
    /\ pstate = "RESPONDED"
    /\ prompt.built
    /\ modelCalls = 1
    /\ answer.given /\ answer.text = "generated"

\* the total length of the texts of chunks
RECURSIVE TotalLen(_)
TotalLen(chunks) ==
    IF chunks = <<>> THEN 0 ELSE Head(chunks).len + TotalLen(Tail(chunks))

\* part is what is left of whole when elements are taken out of it
RECURSIVE IsSubsequence(_, _)
IsSubsequence(part, whole) ==
    IF part = <<>> THEN TRUE
    ELSE IF whole = <<>> THEN FALSE
    ELSE IF Head(part) = Head(whole) THEN IsSubsequence(Tail(part), Tail(whole))
    ELSE IsSubsequence(part, Tail(whole))

\* C13: the chunks of a built prompt are ranked chunks, each whole and in
\* ranking order, their lengths add up to no more than the budget, the first
\* ranked chunk is among them when it fits, and the citations of the Answer
\* are the included chunks in that order.
C13_GreedyPacking ==
    prompt.built =>
        /\ TotalLen(prompt.chunks) <= PromptBudget
        /\ IsSubsequence(prompt.chunks, ranked)
        /\ (ranked # <<>> /\ ranked[1].len <= PromptBudget) =>
              (prompt.chunks # <<>> /\ prompt.chunks[1] = ranked[1])
        /\ answer.given => answer.citations = Citations(prompt.chunks)

\* an answered request whose prompt took the first ranked chunk and had no
\* room for the second
C13_Witness ==
    /\ pstate = "RESPONDED"
    /\ prompt.built
    /\ Len(ranked) = 2
    /\ Len(prompt.chunks) = 1
    /\ TotalLen(ranked) > PromptBudget
    /\ answer.citations = <<ranked[1].sequence_number>>

\* a comes before b in the order of section 4.2
RanksBefore(a, b) ==
    \/ CombinedScore(a) > CombinedScore(b)
    \/ CombinedScore(a) = CombinedScore(b) /\ a.semantic_score > b.semantic_score
    \/ /\ CombinedScore(a) = CombinedScore(b)
       /\ a.semantic_score = b.semantic_score
       /\ a.sequence_number < b.sequence_number

\* the request has been ranked
Ranked == pstate \in {"NO_CONTEXT", "ASSEMBLING"}

\* C14: the ranker's list holds min(K, candidates) of the candidates, none
\* twice; each chunk of it comes before the next in the order combined_score
\* descending, semantic_score descending, sequence_number ascending, and
\* never after it, so that no tie is left to chance; and every candidate left
\* out comes after every chunk of the list.
C14_RankerTopK ==
    Ranked =>
        /\ Len(ranked) = Min(TopK, Len(retrieved))
        /\ \A i \in 1..Len(ranked) : \E j \in 1..Len(retrieved) : ranked[i] = retrieved[j]
        /\ \A i, j \in 1..Len(ranked) :
              i < j => (RanksBefore(ranked[i], ranked[j]) /\ ~RanksBefore(ranked[j], ranked[i]))
        /\ \A j \in 1..Len(retrieved) :
              (\A i \in 1..Len(ranked) : ranked[i] # retrieved[j]) =>
                  \A i \in 1..Len(ranked) : RanksBefore(ranked[i], retrieved[j])

\* more than K candidates were ranked, with a tie on combined_score that the
\* semantic_score decided against the sequence numbers
C14_Witness ==
    /\ Ranked
    /\ Len(retrieved) > TopK
    /\ Len(ranked) = TopK
    /\ \E i \in 1..(Len(ranked) - 1) :
          /\ CombinedScore(ranked[i]) = CombinedScore(ranked[i + 1])
          /\ ranked[i].semantic_score > ranked[i + 1].semantic_score
          /\ ranked[i].sequence_number > ranked[i + 1].sequence_number

(***************************************************************************)
(* Properties of the Q&A page                                              *)
(***************************************************************************)
\* a submission with a blank question or with no book selected
InvalidSubmission(sub) ==
    sub.book_title = "" \/ Trim(sub.question) = <<>>

AnswerDisplayed == qaAnswer # "null" /\ ~loading

\* C24: whenever BookQA displays an answer, the answer was produced for the
\* book that is selected now; a response that comes back after the user
\* switched books is not shown under the new book.
C24_AnswerForSelectedBook ==
    AnswerDisplayed => answerFor = selectedBook

(***************************************************************************)
(* Properties of the Content Filter                                        *)
(***************************************************************************)
\* C15: an application of the filter to a text it has filtered before leaves
\* the text as it is, returns match_count 0 and no categories, and leaves
\* the cumulative statistics of every category as they are.
C15_FilterIdempotent ==
    [][(Len(fresults) >= 1 /\ Len(fresults') = Len(fresults) + 1) =>
          /\ ftext' = ftext
          /\ fresults'[Len(fresults')].match_count = 0
          /\ fresults'[Len(fresults')].categories = <<>>
          /\ stats' = stats]_vars

\* a text with two matches of different categories has been filtered twice
C15_Witness ==
    /\ Len(fresults) = 2
    /\ fresults[1].match_count = 2
    /\ stats["profanity"] = 1 /\ stats["insult"] = 1
    /\ fresults[2].match_count = 0

(***************************************************************************)
(* Properties of authentication                                            *)
(***************************************************************************)
\* C16: App's isAuthenticated is set to true, and the main interface shown
\* in place of the login form, only when the Cognito session is valid: never
\* for a cached current user whose session is missing or expired.
C16_AuthenticatedOnlyWithSession ==
    [][(~isAuthenticated /\ isAuthenticated') => session' = "valid"]_vars

\* C17: from the click on Logout until a login succeeds, App's
\* isAuthenticated is false, whatever step of logout() is under way.
C17_LogoutStaysLoggedOut ==
    loggedOut => ~isAuthenticated


\* C27: App's initial authentication check always finishes: loading becomes
\* false and the login form or the main interface is shown, even if Cognito
\* never answers the session or user-attribute callbacks.
C27_AuthCheckFinishes ==
    <>(ShowsAuth \/ ShowsMain)


(***************************************************************************)
(* Properties of the upload page                                           *)
(***************************************************************************)
\* C22: a file goes to the upload API only if one is selected and its size
\* is below 50MB (50*1024*1024 bytes); a click for any other file shows an
\* error and starts no upload.
C22_OnlyFilesBelowLimitSent ==
    /\ [](\A f \in uploaded : f.size < MaxUploadBytes)
    /\ [][(UploadSubmit /\ (file = NoFile \/ file.size >= MaxUploadBytes))
            => (uploadError' # "" /\ reader' = "idle" /\ ~isLoading')]_vars


(***************************************************************************)
(* Properties of the storage clearing                                      *)
(***************************************************************************)
\* the key is one of the seven listed keys
Listed(key) == \E i \in 1..Len(storageKeys) : storageKeys[i] = key

\* the name has 'cognito', 'aws' or 'auth' somewhere in it
NamesCognito(key) ==
    \E i \in 1..Len(key), j \in 1..Len(key) :
        SubSeq(key, i, j) \in {<<"c", "o", "g", "n", "i", "t", "o">>,
                               <<"a", "w", "s">>, <<"a", "u", "t", "h">>}

\* the keys of a storage, as a set
KeysOf(storage) == {storage[i] : i \in 1..Len(storage)}

\* the keys that are to stay: neither listed nor named after Cognito
Kept(storage) == SelectSeq(storage, LAMBDA k : ~Listed(k) /\ ~NamesCognito(k))

\* C25: after safeClearAuth neither storage holds a listed key or a key with
\* 'cognito', 'aws' or 'auth' in its name, whatever was stored and in
\* whatever order, and every other key is still there, in its place.
C25_SafeClearAuthClears ==
    cleared = "safeClearAuth" =>
        /\ \A k \in KeysOf(localStorage) \cup KeysOf(sessionStorage) :
              ~Listed(k) /\ ~NamesCognito(k)
        /\ localStorage = Kept(storedBefore.local)
        /\ sessionStorage = Kept(storedBefore.session)

\* two adjacent keys named after Cognito, then a key of the application:
\* only the last one is left
C25_Witness ==
    /\ cleared = "safeClearAuth"
    /\ Len(storedBefore.local) = 3
    /\ NamesCognito(storedBefore.local[1]) /\ ~Listed(storedBefore.local[1])
    /\ NamesCognito(storedBefore.local[2]) /\ ~Listed(storedBefore.local[2])
    /\ Len(localStorage) = 1
    /\ localStorage[1] = storedBefore.local[3]

\* C26: after the storage-clearing loops of the earlier logout no key with
\* 'cognito', 'aws' or 'auth' in its name is left in localStorage or
\* sessionStorage, adjacent matching keys included.
C26_EarlierLogoutClears ==
    cleared = "logout" =>
        \A k \in KeysOf(localStorage) \cup KeysOf(sessionStorage) : ~NamesCognito(k)


(***************************************************************************)
(* Properties of the book list                                             *)
(***************************************************************************)
\* C28: once fetchBooks has finished, loading is false and the dropdown of
\* BookSelector offers exactly the books of the hook's state; when the API
\* client and the direct fetch both failed, that is the fallback book.
C28_DropdownOffersBooks ==
    (fetchPc = "idle" /\ lastFetch # "none") =>
        /\ ~booksLoading
        /\ Offered = books
        /\ lastFetch = "fallback" => Offered = fallbackBooks


(***************************************************************************)
(* Properties of the API client                                            *)
(***************************************************************************)
\* the names of the credential headers among the headers
Credentials(headers) ==
    {h[1] : h \in {hd \in headers : hd[1] \in {"x-api-key", "Authorization"}}}

\* the request the step hands to fetch
Sending == requests'[Len(requests')]

\* C29: every request built by apiRequest carries at most one credential
\* header: x-api-key when an api_key is stored, otherwise Authorization:
\* Bearer when there is a valid Cognito token, otherwise neither; the two
\* are never sent together.
C29_OneCredentialHeader ==
    /\ [](\A i \in 1..Len(requests) :
             Cardinality(Credentials(requests[i].headers)) <= 1)
    /\ [][Len(requests') > Len(requests) =>
            Sending.headers =
                IF storedApiKey \notin {"null", ""}
                THEN baseHeaders \cup {<<"x-api-key", storedApiKey>>}
                ELSE IF cachedUser /\ session = "valid"
                THEN baseHeaders \cup {<<"Authorization", <<"Bearer", "jwt">>>>}
                ELSE baseHeaders]_vars

\* one request went out with the API key and, the key cleared, the next one
\* with the Cognito token
C29_Witness ==
    /\ Len(requests) = 2
    /\ Credentials(requests[1].headers) = {"x-api-key"}
    /\ Credentials(requests[2].headers) = {"Authorization"}


(***************************************************************************)
(* Properties of the email verification                                    *)
(***************************************************************************)
\* C30: a failed confirmRegistration leaves the user on the verification
\* screen with loading back to false and a non-empty error message on it:
\* the failure is never dropped silently.
C30_FailedConfirmationShown ==
    [][(ConfirmRejects /\ ShowsVerification) =>
          (ShowsVerification' /\ ~authLoading' /\ authError' # "")]_vars

====
